---- MODULE Spec2Model ----
(***************************************************************************)
(* A model of the MCP chat bot of the Indirect-Prompt-Injection research   *)
(* project: the keyword router (process_message), the chaining             *)
(* orchestrators (Gmail read chain, Drive document chain, calendar event   *)
(* chain, direct-URL handling), the URL safety classifier and batch        *)
(* fetcher of utils.py, the image extractor, the tool dispatcher           *)
(* MCPClient.call_tool and the e-mail summariser.                          *)
(*                                                                         *)
(* Texts (utterances, e-mail bodies, document contents, event texts) are   *)
(* sequences of whitespace-separated tokens.  A token carries its word     *)
(* (for the substring keyword tests), its URL (when the token is a URL)    *)
(* and its decomposition into character atoms (for the numeric regular     *)
(* expressions).  URLs are records of the parts urlparse distinguishes.    *)
(***************************************************************************)
EXTENDS Naturals, Integers, Sequences, FiniteSets, TLC

VARIABLES op, input, events, result

vars == <<op, input, events, result>>

(***************************************************************************)
(* Bounds                                                                  *)
(***************************************************************************)
\* longest URL list handed to process_urls_safely
MaxUrlList == 3
\* largest caller-supplied max_urls cap
MaxCap == 2

(***************************************************************************)
(* Sequence helpers (Python list idioms)                                   *)
(***************************************************************************)
Min(a, b) == IF a <= b THEN a ELSE b

\* s[:n]
Take(s, n) == SubSeq(s, 1, Min(n, Len(s)))

\* x in s
InSeq(x, s) == \E i \in 1..Len(s) : s[i] = x

\* set(s)
Range(s) == {s[i] : i \in 1..Len(s)}

\* list(dict.fromkeys(s)): first occurrences, in order
RECURSIVE Dedup(_)
Dedup(s) ==
    IF s = <<>> THEN <<>>
    ELSE LET r == Dedup(SubSeq(s, 1, Len(s) - 1))
             x == s[Len(s)]
         IN  IF InSeq(x, r) THEN r ELSE Append(r, x)

\* [f(x) for x in s] concatenated: list.extend in a loop
RECURSIVE Flatten(_)
Flatten(ss) == IF ss = <<>> THEN <<>> ELSE Head(ss) \o Flatten(Tail(ss))

\* the sequences over S of length at most n
SeqsUpTo(S, n) == UNION {[1..k -> S] : k \in 0..n}

\* the duplicate-free sequences over S of length at most n
DistinctSeqs(S, n) ==
    {s \in SeqsUpTo(S, n) : \A i, j \in 1..Len(s) : i # j => s[i] # s[j]}

(***************************************************************************)
(* URLs                                                                    *)
(***************************************************************************)
\* the parts of a URL: scheme://userinfo@host:port/path with the extension
\* of the last path segment kept apart; host and path are label sequences
Url(scheme, userinfo, host, port, path, ext) ==
    [scheme |-> scheme, userinfo |-> userinfo, host |-> host,
     port |-> port, path |-> path, ext |-> ext]

\* the empty string, as a URL value
NoUrl == Url("", "", <<>>, "", <<>>, "")

WikiUrl     == Url("https", "", <<"en", "wikipedia", "org">>, "", <<"wiki", "Cat">>, "")
WikiBadUrl  == Url("https", "", <<"en", "wikipedia", "org">>, "", <<"Cat">>, "")
GoodUrl     == Url("https", "", <<"example", "org">>, "", <<"a">>, "")
OtherUrl    == Url("http", "", <<"docs", "python", "org">>, "", <<"b">>, "")
BlockedUrl  == Url("https", "", <<"malware", "com">>, "", <<"x">>, "")
PortUrl     == Url("https", "", <<"malware", "com">>, "8080", <<"x">>, "")
DotComUrl   == Url("https", "", <<"example", "com">>, "", <<>>, "")
LocalUrl    == Url("http", "", <<"127", "0", "0", "1">>, "", <<"a">>, "")
AdminUrl    == Url("https", "", <<"example", "org">>, "", <<"admin">>, "")
DataUrl     == Url("http", "", <<"data">>, "80", <<"x">>, "")
ImageUrl    == Url("https", "", <<"cdn", "example", "org">>, "", <<"p">>, "png")
PhotoUrl    == Url("https", "", <<"cdn", "example", "org">>, "", <<"photo", "q">>, "")
ImgDirUrl   == Url("https", "", <<"cdn", "example", "org">>, "", <<"img", "r">>, "")

(***************************************************************************)
(* utils.py: the URL safety classifier                                     *)
(***************************************************************************)
SAFE_DOMAINS ==
    {<<"wikipedia", "org">>, <<"en", "wikipedia", "org">>, <<"wikimedia", "org">>,
     <<"github", "com">>, <<"stackoverflow", "com">>, <<"python", "org">>,
     <<"docs", "python", "org">>, <<"developer", "mozilla", "org">>,
     <<"w3schools", "com">>, <<"geeksforgeeks", "org">>, <<"tutorialspoint", "com">>,
     <<"realpython", "com">>, <<"pythonprogramming", "net">>, <<"learnpython", "org">>,
     <<"pythonforbeginners", "com">>, <<"pythoncentral", "io">>,
     <<"pythonbasics", "org">>, <<"python-course", "eu">>,
     <<"pythonprogramminglanguage", "com">>}

BLOCKED_DOMAINS ==
    {<<"malware", "com">>, <<"phishing", "com">>, <<"scam", "com">>, <<"virus", "com">>,
     <<"hack", "com">>, <<"exploit", "com">>, <<"crack", "com">>, <<"warez", "com">>,
     <<"torrent", "com">>, <<"pirate", "com">>}

\* ["localhost", "127.0.0.1", "0.0.0.0"]
LOCAL_DOMAINS == {<<"localhost">>, <<"127", "0", "0", "1">>, <<"0", "0", "0", "0">>}

\* domain in S: parsed.netloc is the whole "userinfo@host:port" string, so a
\* netloc with a userinfo or a port is never a member of a set of host names
NetlocIn(u, S) == u.userinfo = "" /\ u.port = "" /\ u.host \in S

\* "a.b" in domain, for a dotted name given by its labels
HasLabels(h, sub) ==
    \E i \in 1..(Len(h) - Len(sub) + 1) : SubSeq(h, i, i + Len(sub) - 1) = sub

\* the text after the last dot when the URL string ends in ".something"
FinalSuffix(u) ==
    IF u.path # <<>> THEN u.ext
    ELSE IF u.port = "" /\ Len(u.host) >= 2 THEN u.host[Len(u.host)]
    ELSE ""

\* labels made of one to three digits
NumericLabels == {"0", "1", "127", "80", "10", "192", "168"}

\* [0-9]{1,3}\.[0-9]{1,3}\.[0-9]{1,3}\.[0-9]{1,3}
HasIPv4(u) ==
    \E i \in 1..(Len(u.host) - 3) : \A j \in 0..3 : u.host[i + j] \in NumericLabels

\* (admin|login|wp-admin|phpmyadmin|cpanel|webmail) anywhere in the URL
HasAdminWord(u) ==
    \E w \in Range(u.host) \cup Range(u.path) \cup {u.userinfo} :
        w \in {"admin", "login", "wp-admin", "phpmyadmin", "cpanel", "webmail"}

\* the five suspicious_patterns, searched over the whole URL string
Suspicious(u) ==
    \/ FinalSuffix(u) \in {"exe", "bat", "cmd", "com", "scr", "pif", "vbs", "js",
                           "jar", "msi", "dmg", "app"}
    \/ FinalSuffix(u) \in {"onion", "bit", "tor"}
    \/ HasIPv4(u)
    \/ HasAdminWord(u)
    \/ FinalSuffix(u) \in {"ru", "cn", "tk", "ml", "ga", "cf", "gq"}

is_safe_url(u) ==
    IF NetlocIn(u, BLOCKED_DOMAINS) THEN FALSE
    ELSE IF NetlocIn(u, SAFE_DOMAINS) THEN TRUE
    ELSE IF HasLabels(u.host, <<"wikipedia", "org">>) THEN TRUE
    ELSE IF NetlocIn(u, LOCAL_DOMAINS) THEN FALSE
    ELSE ~Suspicious(u)

(***************************************************************************)
(* Texts                                                                   *)
(***************************************************************************)
\* a token of a text: its word, its URL (NoUrl for a plain word) and its
\* character atoms (digits, ":", "-", "am", "pm", "min", "x" for letters)
Tok(w, url, atoms) == [w |-> w, url |-> url, atoms |-> atoms]

Word(w) == Tok(w, NoUrl, <<"x">>)

UrlTok(u) == Tok("", u, <<"x">>)

IsUrlTok(t) == t.url # NoUrl

\* what url_pattern matches of a URL token: the host class [-\w.] stops at "@"
url_pattern(u) ==
    IF u.userinfo # "" THEN Url(u.scheme, "", <<u.userinfo>>, "", <<>>, "") ELSE u

\* re.findall(url_pattern, text)
FindUrls(text) ==
    LET toks == SelectSeq(text, IsUrlTok)
    IN  [i \in 1..Len(toks) |-> url_pattern(toks[i].url)]

\* utils.extract_urls_from_text: the matches is_safe_url accepts, in order,
\* duplicates kept
extract_urls_from_text(text) == SelectSeq(FindUrls(text), is_safe_url)

(***************************************************************************)
(* The trace of one request: safety evaluations and tool invocations       *)
(***************************************************************************)
\* one observable step of a handler.  kind is "is_safe_url" (outcome "true"
\* or "false"), "call_tool" (a call through MCPClient.call_tool; outcome
\* "ok", "raise" when the provider raises, "notfound" when the dispatcher
\* has no branch) or "direct" (the bot's own _wikipedia_get_page /
\* _web_access_get_content, which catch every error themselves)
Ev(kind, server, tool, url, outcome, arg) ==
    [kind |-> kind, server |-> server, tool |-> tool, url |-> url,
     outcome |-> outcome, arg |-> arg]

\* is_safe_url(url) evaluated inside extract_urls_from_text
SafeCheck(u) ==
    Ev("is_safe_url", "", "", u, IF is_safe_url(u) THEN "true" ELSE "false", <<>>)

\* the evaluations extract_urls_from_text performs on a text, in order
CheckEvents(text) ==
    LET m == FindUrls(text) IN [i \in 1..Len(m) |-> SafeCheck(m[i])]

(***************************************************************************)
(* mcp_client.py: the dispatcher                                           *)
(***************************************************************************)
\* the (server, tool) pairs call_tool has a branch for
Registered ==
    {<<"gmail", "get_messages">>, <<"gmail", "send_message">>,
     <<"gmail", "summarize_and_send">>,
     <<"calendar", "get_events">>, <<"calendar", "create_event">>,
     <<"google", "search">>, <<"maps", "geocode">>, <<"slack", "send_message">>,
     <<"drive", "search">>, <<"drive", "retrieve">>,
     <<"wikipedia", "get_page">>, <<"web_access", "get_content">>}

\* MCPClient.call_tool: the provider's outcome, or the final raise of the
\* if/elif ladder for a pair without a branch
call_tool(server, tool, url, arg, providerFails) ==
    Ev("call_tool", server, tool, url,
       IF <<server, tool>> \notin Registered THEN "notfound"
       ELSE IF providerFails THEN "raise"
       ELSE "ok",
       arg)

\* the call raised into its caller
Raised(ev) == ev.outcome \in {"raise", "notfound"}

(***************************************************************************)
(* utils.py: sanitize_url and process_urls_safely                          *)
(***************************************************************************)
\* removes "javascript:", "data:" and "vbscript:" (in a matched URL these can
\* only be a host of that name followed by the port colon, which leaves the
\* port digits as the host) and prefixes "https://" when no scheme is left
sanitize_url(u) ==
    IF u = NoUrl THEN NoUrl
    ELSE LET v == IF u.host \in {<<"javascript">>, <<"data">>, <<"vbscript">>}
                      /\ u.port # ""
                   THEN [u EXCEPT !.host = <<u.port>>, !.port = ""]
                   ELSE u
         IN  IF v.scheme \in {"http", "https"} THEN v
             ELSE [v EXCEPT !.scheme = "https"]

\* one entry of the list process_urls_safely returns
UrlResult(u, domain, content_type, is_safe) ==
    [url |-> u, domain |-> domain, content_type |-> content_type, is_safe |-> is_safe]

\* "wikipedia.org" in domain
IsWikipedia(u) == HasLabels(u.host, <<"wikipedia", "org">>)

\* len(path_parts) >= 2 and path_parts[0] == "wiki"
IsWikiPage(u) == Len(u.path) >= 2 /\ u.path[1] = "wiki"

\* the body of the for loop: the try block and its except clause
ProcessOneUrl(u, failing) ==
    LET su == sanitize_url(u)
        isWiki == IsWikipedia(su)
        call == IF isWiki
                THEN call_tool("wikipedia", "get_page", su, <<>>, su \in failing)
                ELSE call_tool("web_access", "get_content", su, <<>>, su \in failing)
    IN  IF su = NoUrl THEN [results |-> <<>>, events |-> <<>>]
        ELSE IF isWiki /\ ~IsWikiPage(su)
        THEN [results |-> <<UrlResult(su, su.host, "error", TRUE)>>, events |-> <<>>]
        ELSE IF Raised(call)
        THEN [results |-> <<UrlResult(u, <<"unknown">>, "error", FALSE)>>,
              events |-> <<call>>]
        ELSE [results |-> <<UrlResult(su, su.host,
                                      IF isWiki THEN "wikipedia" ELSE "web_content",
                                      TRUE)>>,
              events |-> <<call>>]

\* a loop whose try block encloses the whole batch: the first failure ends it
RECURSIVE BatchAbort(_, _)
BatchAbort(urls, failing) ==
    IF urls = <<>> THEN [results |-> <<>>, events |-> <<>>]
    ELSE LET h == ProcessOneUrl(Head(urls), failing)
             r == IF h.results # <<>> /\ ~h.results[1].is_safe
                  THEN [results |-> <<>>, events |-> <<>>]
                  ELSE BatchAbort(Tail(urls), failing)
         IN  [results |-> h.results \o r.results, events |-> h.events \o r.events]

\* for url in ...: one iteration per URL, whatever the earlier ones did
RECURSIVE Batch(_, _)
Batch(urls, failing) ==
    IF urls = <<>> THEN [results |-> <<>>, events |-> <<>>]
    ELSE LET h == ProcessOneUrl(Head(urls), failing)
             r == Batch(Tail(urls), failing)
         IN  [results |-> h.results \o r.results, events |-> h.events \o r.events]

process_urls_safely(urls, max_urls, failing) == Batch(Take(urls, max_urls), failing)

(***************************************************************************)
(* Specification of the batch fetcher                                      *)
(***************************************************************************)
\* the URLs a caller can hand over: extract_urls_from_text kept them
ListUrls == {u \in {WikiUrl, WikiBadUrl, GoodUrl, DataUrl, ImageUrl, BlockedUrl} :
                is_safe_url(u)}

\* the inputs of process_urls_safely: a duplicate-free URL list (its callers
\* de-duplicate), the cap, and the URLs for which the provider raises
UrlsInput(urls, max_urls, failing) ==
    [urls |-> urls, max_urls |-> max_urls, failing |-> failing]

InitUrls ==
    /\ op = "init"
    /\ events = <<>>
    /\ result = <<>>
    /\ \E urls \in DistinctSeqs(ListUrls, MaxUrlList), max_urls \in 0..MaxCap,
          failing \in SUBSET {sanitize_url(u) : u \in ListUrls} :
          input = UrlsInput(urls, max_urls, failing)

\* one call of utils.process_urls_safely
ProcessUrlsSafely ==
    /\ op = "init"
    /\ LET r == process_urls_safely(input.urls, input.max_urls, input.failing)
       IN  /\ op' = "process_urls_safely"
           /\ events' = r.events
           /\ result' = r.results
    /\ UNCHANGED input

NextUrls == ProcessUrlsSafely

SpecUrls == InitUrls /\ [][NextUrls]_vars

\* C5: when process_urls_safely runs and the provider fails for any subset of
\* the URLs, there is exactly one result per attempted URL, in input order;
\* the slot of a URL whose fetch raised carries the error payload with
\* is_safe = FALSE, every other slot is that of the sanitised URL, and every
\* attempted URL that needs a fetch is fetched, also after a failed one.
C5_PartialFailureIsolated ==
    op = "process_urls_safely" =>
        LET att == Take(input.urls, input.max_urls)
            fetches(u) == {i \in 1..Len(events) :
                              /\ events[i].kind = "call_tool"
                              /\ events[i].url = sanitize_url(u)}
            failed(u) == \E i \in fetches(u) : Raised(events[i])
            needsFetch(u) == ~(IsWikipedia(sanitize_url(u)) /\ ~IsWikiPage(sanitize_url(u)))
        IN  /\ Len(result) = Len(att)
            /\ \A i \in 1..Len(att) :
                  /\ needsFetch(att[i]) => Cardinality(fetches(att[i])) = 1
                  /\ (needsFetch(att[i]) /\ sanitize_url(att[i]) \in input.failing)
                        => failed(att[i])
                  /\ failed(att[i]) =>
                        /\ result[i].url = att[i]
                        /\ result[i].content_type = "error"
                        /\ ~result[i].is_safe
                  /\ ~failed(att[i]) =>
                        /\ result[i].url = sanitize_url(att[i])
                        /\ result[i].is_safe
            /\ \A i, j \in 1..Len(events) :
                  (i < j) => \E a, b \in 1..Len(att) :
                                /\ a < b
                                /\ events[i].url = sanitize_url(att[a])
                                /\ events[j].url = sanitize_url(att[b])

\* a batch whose first fetch raised and whose second URL was still fetched
C5_FailureThenSuccess ==
    /\ op = "process_urls_safely"
    /\ Len(result) >= 2
    /\ ~result[1].is_safe
    /\ result[2].is_safe
    /\ result[2].content_type # "error"
    /\ \E i \in 1..Len(events) : events[i].url = result[2].url /\ events[i].outcome = "ok"

(***************************************************************************)
(* str.lower() and the substring tests of the router                       *)
(***************************************************************************)
\* the words and atoms of the model that have upper-case letters
LowerTable ==
    [w \in {"Search", "Standup", "Cat", "PM", "AM", "Read", "Hello"} |->
        CASE w = "Search" -> "search"
          [] w = "Hello" -> "hello"
          [] w = "Standup" -> "standup"
          [] w = "Cat" -> "cat"
          [] w = "PM" -> "pm"
          [] w = "AM" -> "am"
          [] w = "Read" -> "read"]

\* w.lower()
LowerStr(w) == IF w \in DOMAIN LowerTable THEN LowerTable[w] ELSE w

LowerSeq(s) == [i \in 1..Len(s) |-> LowerStr(s[i])]

\* text.lower(), token by token
Lower(text) ==
    [i \in 1..Len(text) |->
        Tok(LowerStr(text[i].w),
            IF IsUrlTok(text[i])
            THEN [text[i].url EXCEPT !.host = LowerSeq(@), !.path = LowerSeq(@)]
            ELSE NoUrl,
            LowerSeq(text[i].atoms))]

\* the pairs (word, keyword) of the model where the keyword is a proper
\* substring of the word
ProperSubstrings ==
    {<<"gmail", "mail">>, <<"email", "mail">>, <<"emails", "email">>,
     <<"emails", "mail">>, <<"events", "event">>, <<"https", "http">>,
     <<"wikipedia", "wiki">>, <<"website", "site">>, <<"news", "new">>,
     <<"address", "add">>, <<"uninvite", "invite">>}

\* keyword in word
WordHas(w, k) == w = k \/ <<w, k>> \in ProperSubstrings

\* the words a token's string is made of
TokWords(t) ==
    IF IsUrlTok(t)
    THEN ({t.url.scheme, t.url.userinfo, t.url.ext} \ {""})
            \cup Range(t.url.host) \cup Range(t.url.path)
    ELSE {t.w}

\* keyword in text, for a keyword given as the sequence of its words
Has(text, kw) ==
    \E i \in 1..(Len(text) - Len(kw) + 1) :
        \A j \in 1..Len(kw) : \E w \in TokWords(text[i + j - 1]) : WordHas(w, kw[j])

\* any(word in text for word in kws)
AnyIn(text, kws) == \E kw \in kws : Has(text, kw)

(***************************************************************************)
(* main.py: the clock-time and duration patterns of the create-event branch*)
(***************************************************************************)
Digits == {"0", "1", "2", "3", "4", "5", "6", "7", "8", "9"}

DigitVal(d) ==
    CASE d = "0" -> 0 [] d = "1" -> 1 [] d = "2" -> 2 [] d = "3" -> 3 [] d = "4" -> 4
      [] d = "5" -> 5 [] d = "6" -> 6 [] d = "7" -> 7 [] d = "8" -> 8 [] d = "9" -> 9

\* int(s) for a string of digits
RECURSIVE IntOf(_)
IntOf(ds) ==
    IF ds = <<>> THEN 0 ELSE 10 * IntOf(SubSeq(ds, 1, Len(ds) - 1)) + DigitVal(ds[Len(ds)])

\* the characters of a text: the atoms of its tokens, a blank between tokens
RECURSIVE Chars(_)
Chars(text) ==
    IF text = <<>> THEN <<>>
    ELSE IF Len(text) = 1 THEN text[1].atoms
    ELSE text[1].atoms \o <<" ">> \o Chars(Tail(text))

IsDigitAt(A, i) == i >= 1 /\ i <= Len(A) /\ A[i] \in Digits

\* the first index at or after i that holds no blank
RECURSIVE SkipBlanks(_, _)
SkipBlanks(A, i) == IF i <= Len(A) /\ A[i] = " " THEN SkipBlanks(A, i + 1) ELSE i

\* (\d{1,2}):?(\d{2})\s*(am|pm|AM|PM)? tried at index i with n hour digits and
\* with or without the colon: the groups, or <<>> when this way fails
TimeTry(A, i, n, colon) ==
    LET p == i + n + (IF colon THEN 1 ELSE 0)
        q == SkipBlanks(A, p + 2)
    IN  IF /\ \A k \in 0..(n - 1) : IsDigitAt(A, i + k)
           /\ colon => (i + n <= Len(A) /\ A[i + n] = ":")
           /\ IsDigitAt(A, p) /\ IsDigitAt(A, p + 1)
        THEN <<[hour |-> IntOf(SubSeq(A, i, i + n - 1)),
                minute |-> IntOf(SubSeq(A, p, p + 1)),
                ampm |-> IF q <= Len(A) /\ A[q] \in {"am", "pm"} THEN A[q] ELSE ""]>>
        ELSE <<>>

\* the match at index i: greedy choices first, backtracking in regex order
TimeMatchAt(A, i) ==
    TimeTry(A, i, 2, TRUE) \o TimeTry(A, i, 2, FALSE)
        \o TimeTry(A, i, 1, TRUE) \o TimeTry(A, i, 1, FALSE)

\* re.search(time_pattern, input_lower): the leftmost match, <<>> for None
time_match(A) ==
    LET starts == {i \in 1..Len(A) : TimeMatchAt(A, i) # <<>>}
    IN  IF starts = {} THEN <<>>
        ELSE <<TimeMatchAt(A, CHOOSE i \in starts : \A j \in starts : i <= j)[1]>>

\* the end of the run of digits that starts at i
RECURSIVE DigitRunEnd(_, _)
DigitRunEnd(A, i) == IF IsDigitAt(A, i + 1) THEN DigitRunEnd(A, i + 1) ELSE i

\* (\d+)\s*(min|minute|minutes) tried at index i
DurationAt(A, i) ==
    LET e == DigitRunEnd(A, i)
        q == SkipBlanks(A, e + 1)
    IN  IF IsDigitAt(A, i) /\ q <= Len(A) /\ A[q] = "min"
        THEN <<IntOf(SubSeq(A, i, e))>>
        ELSE <<>>

\* re.search(r'(\d+)\s*(min|minute|minutes)', input_lower)
duration_match(A) ==
    LET starts == {i \in 1..Len(A) : DurationAt(A, i) # <<>>}
    IN  IF starts = {} THEN <<>>
        ELSE DurationAt(A, CHOOSE i \in starts : \A j \in starts : i <= j)

\* a datetime of the model: days after today, hour and minute
DateTime(day, hour, minute) == [day |-> day, hour |-> hour, minute |-> minute]

\* dt + timedelta(minutes=n)
AddMinutes(dt, n) ==
    LET t == dt.hour * 60 + dt.minute + n
    IN  DateTime(dt.day + (t \div 1440), (t % 1440) \div 60, t % 60)

\* kw occurs in text at token index i
HasAt(text, kw, i) ==
    /\ i >= 1 /\ i + Len(kw) - 1 <= Len(text)
    /\ \A j \in 1..Len(kw) : \E w \in TokWords(text[i + j - 1]) : WordHas(w, kw[j])

\* text.split(kw)[-1]: the tokens after the last occurrence of kw, the whole
\* text when kw does not occur
AfterLast(text, kw) ==
    LET at == {i \in 1..Len(text) : HasAt(text, kw, i)}
    IN  IF at = {} THEN text
        ELSE LET i == CHOOSE x \in at : \A y \in at : y <= x
             IN  SubSeq(text, i + Len(kw), Len(text))

(***************************************************************************)
(* main.py: process_message, the keyword router                            *)
(***************************************************************************)
\* an entry of tools_to_use: (server_name, tool_name, params)
Tool(server, tool, url, arg) == [server |-> server, tool |-> tool, url |-> url, arg |-> arg]

SEARCH_KW ==
    {<<"search">>, <<"find">>, <<"google">>, <<"look", "up">>, <<"what", "is">>,
     <<"how", "to">>, <<"weather">>, <<"news">>, <<"information", "about">>,
     <<"tell", "me", "about">>}

INFO_KW ==
    {<<"capital", "of">>, <<"population", "of">>, <<"temperature">>, <<"forecast">>,
     <<"definition", "of">>, <<"meaning", "of">>, <<"who", "is">>, <<"where", "is">>}

WEATHER_KW == {<<"weather">>, <<"temperature">>, <<"forecast">>}

SLACK_KW == {<<"slack">>, <<"slack", "message">>, <<"slack", "channel">>}

MAIL_KW == {<<"gmail">>, <<"email">>, <<"mail">>}

MAPS_KW == {<<"location">>, <<"map">>, <<"address">>, <<"where">>}

DRIVE_KW == {<<"drive">>, <<"file">>, <<"search">>, <<"retrieve">>}

WEB_KW == {<<"web">>, <<"internet">>, <<"news">>, <<"weather">>}

FILE_NAME_KW == {<<"named">>, <<"called">>, <<"file", "named">>, <<"file", "called">>}

FILE_LIST_KW ==
    {<<"list", "files">>, <<"show", "files">>, <<"what", "files">>,
     <<"drive", "files">>, <<"all", "files">>}

CALENDAR_KW ==
    {<<"calendar">>, <<"calender">>, <<"events">>, <<"schedule">>, <<"meeting">>,
     <<"event">>, <<"appointment">>}

CREATE_KW ==
    {<<"create">>, <<"add">>, <<"new">>, <<"make">>, <<"set", "up">>,
     <<"set", "up", "an">>, <<"setup">>}

GMAIL_KW ==
    {<<"gmail">>, <<"email">>, <<"mail">>, <<"inbox">>, <<"emails">>, <<"messages">>}

SUMMARIZE_KW == {<<"summarize">>, <<"summary">>, <<"summarise">>}

SEND_KW == {<<"send">>, <<"compose">>, <<"write">>, <<"create">>}

REFERENCE_KW == {<<"reference">>, <<"access">>, <<"website">>, <<"page">>, <<"article">>}

SITE_KW == {<<"wikipedia">>, <<"wiki">>, <<"site">>, <<"url">>}

FILE_CONTENT_KW ==
    {<<"read">>, <<"content">>, <<"instructions">>, <<"process">>, <<"open">>,
     <<"view">>, <<"summarize">>}

\* the if / elif / elif cascade of search detection
SearchTools(u, lo) ==
    IF AnyIn(lo, SEARCH_KW) THEN <<Tool("google", "search", NoUrl, u)>>
    ELSE IF AnyIn(lo, INFO_KW) THEN <<Tool("google", "search", NoUrl, u)>>
    ELSE IF AnyIn(lo, WEATHER_KW)
    THEN <<Tool("google", "search", NoUrl, <<Word("weather")>> \o u)>>
    ELSE <<>>

\* the Drive detection the benign bot runs first: one drive.search for the
\* query cut out of the utterance (kept here as the utterance it is cut from)
\* and, for a named file, the quoted exact-match search
DriveFirstTools(u, lo) ==
    <<Tool("drive", "search", NoUrl, u)>>
        \o (IF AnyIn(lo, FILE_NAME_KW)
            THEN <<Tool("drive", "search", NoUrl, <<Word("\"")>> \o u)>>
            ELSE <<>>)

\* the first if / elif chain: Drive first in the benign bot, then search
FirstTools(v, u, lo) ==
    IF v = "benign" /\ AnyIn(lo, DRIVE_KW) /\ ~AnyIn(lo, WEB_KW)
    THEN DriveFirstTools(u, lo)
    ELSE SearchTools(u, lo)

SlackTools(u, lo) ==
    IF AnyIn(lo, SLACK_KW) /\ ~AnyIn(lo, MAIL_KW)
    THEN <<Tool("slack", "send_message", NoUrl, u)>>
    ELSE <<>>

MapsTools(u, lo) ==
    IF AnyIn(lo, MAPS_KW) THEN <<Tool("maps", "geocode", NoUrl, u)>> ELSE <<>>

\* mcp_code: the Drive detection; benign: the file listing detection
DriveTools(v, u, lo) ==
    IF v = "mcp_code"
    THEN (IF AnyIn(lo, DRIVE_KW) THEN <<Tool("drive", "search", NoUrl, u)>> ELSE <<>>)
    ELSE (IF AnyIn(lo, FILE_LIST_KW) THEN <<Tool("drive", "search", NoUrl, <<>>)>> ELSE <<>>)

\* the hour in 24-hour format
Hour24(m) ==
    IF m.ampm = "pm" /\ m.hour # 12 THEN m.hour + 12
    ELSE IF m.ampm = "am" /\ m.hour = 12 THEN 0
    ELSE m.hour

\* event_name: the text after "name it as", "name it" or "called" in
\* input_lower, "Test Event" otherwise
EventName(lo) ==
    IF Has(lo, <<"name", "it", "as">>) THEN AfterLast(lo, <<"name", "it", "as">>)
    ELSE IF Has(lo, <<"name", "it">>) THEN AfterLast(lo, <<"name", "it">>)
    ELSE IF Has(lo, <<"called">>) THEN AfterLast(lo, <<"called">>)
    ELSE <<Word("Test"), Word("Event")>>

\* the create-event branch: raised is the ValueError of now.replace(hour=...,
\* minute=...), which no try block encloses
CreateEventFrom(lo, tm, dm) ==
    LET hour == IF tm = <<>> THEN 15 ELSE Hour24(tm[1])
        minute == IF tm = <<>> THEN 0 ELSE tm[1].minute
        start == DateTime(0, hour, minute)
        duration_minutes == IF dm = <<>> THEN 10 ELSE dm[1]
    IN  IF hour > 23 \/ minute > 59
        THEN [raised |-> TRUE, tools |-> <<>>]
        ELSE [raised |-> FALSE,
              tools |-> <<Tool("calendar", "create_event", NoUrl,
                               [summary |-> EventName(lo),
                                start_time |-> start,
                                end_time |-> AddMinutes(start, duration_minutes)])>>]

\* time_match and duration_match are both searched in input_lower
CreateEvent(lo) == CreateEventFrom(lo, time_match(Chars(lo)), duration_match(Chars(lo)))

CalendarTools(lo) ==
    IF AnyIn(lo, CALENDAR_KW)
    THEN IF AnyIn(lo, CREATE_KW) THEN CreateEvent(lo)
         ELSE [raised |-> FALSE, tools |-> <<Tool("calendar", "get_events", NoUrl, <<>>)>>]
    ELSE [raised |-> FALSE, tools |-> <<>>]

\* the words the e-mail address pattern matches
EmailWords == {"bob@example.org", "alice@example.com"}

\* the Gmail detection: chain is the early return into
\* process_message_with_tool_chaining(user_input, max_urls=5, ...)
GmailTools(u, lo) ==
    IF ~AnyIn(lo, GMAIL_KW) THEN [chain |-> FALSE, tools |-> <<>>]
    ELSE IF AnyIn(lo, SUMMARIZE_KW)
    THEN LET m == SelectSeq(u, LAMBDA t : t.w \in EmailWords)
         IN  [chain |-> FALSE,
              tools |-> <<Tool("gmail", "summarize_and_send", NoUrl,
                               IF m = <<>> THEN "user@example.com" ELSE m[1].w)>>]
    ELSE IF AnyIn(lo, SEND_KW)
    THEN [chain |-> FALSE, tools |-> <<Tool("gmail", "send_message", NoUrl, u)>>]
    ELSE [chain |-> TRUE, tools |-> <<>>]

\* "wikipedia.org" in url.lower()
UrlMentionsWikipedia(u) == IsWikipedia(u)

\* one tool per URL extract_urls_from_text returned
UrlTools(u) ==
    LET m == extract_urls_from_text(u)
    IN  [i \in 1..Len(m) |->
            IF UrlMentionsWikipedia(m[i])
            THEN Tool("wikipedia", "get_page", m[i], <<>>)
            ELSE Tool("web_access", "get_content", m[i], <<>>)]

ReferenceTools(u, lo) ==
    IF AnyIn(lo, REFERENCE_KW) /\ AnyIn(lo, SITE_KW) /\ extract_urls_from_text(u) = <<>>
    THEN <<Tool("google", "search", NoUrl, u)>>
    ELSE <<>>

\* tools_to_use as it stands when the calendar detection is reached
BeforeCalendar(v, u, lo) ==
    FirstTools(v, u, lo) \o SlackTools(u, lo) \o MapsTools(u, lo) \o DriveTools(v, u, lo)

\* tools_to_use as it stands when the Gmail detection is reached
BeforeGmail(v, u, lo, cal) == BeforeCalendar(v, u, lo) \o cal.tools

\* the routing part of process_message: how it leaves ("raise", "chain" or
\* "tools"), tools_to_use at the end of the detections, the is_safe_url
\* evaluations made on the way, and what had been appended to tools_to_use
\* when the method left the detections
RouteFrom(v, u, lo, cal, gm) ==
        IF cal.raised
        THEN [exit |-> "raise", tools |-> <<>>, events |-> <<>>,
              appended |-> BeforeCalendar(v, u, lo)]
        ELSE IF gm.chain
        THEN [exit |-> "chain", tools |-> <<>>, events |-> <<>>,
              appended |-> BeforeGmail(v, u, lo, cal)]
        ELSE [exit |-> "tools",
              tools |-> BeforeGmail(v, u, lo, cal) \o gm.tools
                          \o UrlTools(u) \o ReferenceTools(u, lo),
              events |-> CheckEvents(u),
              appended |-> BeforeGmail(v, u, lo, cal) \o gm.tools
                             \o UrlTools(u) \o ReferenceTools(u, lo)]

\* input_lower = user_input.lower(), then the detections in source order
Route(v, u) == RouteFrom(v, u, Lower(u), CalendarTools(Lower(u)), GmailTools(u, Lower(u)))

(***************************************************************************)
(* main.py: the tool execution loop and the chains behind it               *)
(***************************************************************************)
\* the bot's own _wikipedia_get_page / _web_access_get_content: a failed
\* request comes back as {"success": False, ...}, never as an exception
Direct(server, tool, url, failing) ==
    Ev("direct", server, tool, url, IF url \in failing THEN "error" ELSE "ok", <<>>)

\* IntelligentChatBot._process_url_safely: no safety evaluation
bot_process_url_safely(u, failing) ==
    IF UrlMentionsWikipedia(u)
    THEN Direct("wikipedia", "_wikipedia_get_page", u, failing)
    ELSE Direct("web_access", "_web_access_get_content", u, failing)

\* the bare-domain pattern of the bot's extractor also matches inside an
\* http(s) URL: host and path up to a port colon, re-prefixed with https://
DomainMatch(u) ==
    Url("https", "", u.host,
        "", IF u.port = "" THEN u.path ELSE <<>>, IF u.port = "" THEN u.ext ELSE "")

\* the pattern needs a dot and an alphabetic last label
HasDomainMatch(u) == Len(u.host) >= 2 /\ u.host[Len(u.host)] \notin NumericLabels

\* IntelligentChatBot.extract_urls_from_text: every match of every pattern,
\* first occurrences kept; is_safe_url is not consulted
bot_extract_urls_from_text(text) ==
    LET toks == SelectSeq(text, IsUrlTok)
        full == [i \in 1..Len(toks) |-> toks[i].url]
        bare == SelectSeq(full, HasDomainMatch)
    IN  Dedup(full \o [i \in 1..Len(bare) |-> DomainMatch(bare[i])])

\* for url in urls: await self._process_url_safely(url)
FetchEach(urls, failing) ==
    [i \in 1..Len(urls) |-> bot_process_url_safely(urls[i], failing)]

\* a line of the response
Line(label, ok) == [label |-> label, ok |-> ok]

\* a Drive file: Google Docs are read through the Docs API, every other
\* type through drive.retrieve, whose answer carries no "content"
DriveFile(id, mime, content) == [id |-> id, mime |-> mime, content |-> content]

\* _read_file_content: the call it makes and the content it returns
read_file_content(f, down) ==
    IF f.mime = "gdoc" THEN [events |-> <<>>, content |-> f.content]
    ELSE [events |-> <<call_tool("drive", "retrieve", NoUrl, f.id,
                                 <<"drive", "retrieve">> \in down)>>,
          content |-> <<>>]

(***************************************************************************)
(* main.py: _extract_instructions_from_text, _process_instructions and the *)
(* five executors. A document is a text whose words are lower-case; "." is *)
(* a token of its own and the e-mail addresses are the only other tokens   *)
(* that hold a dot. An instruction is the sequence of its words.           *)
(***************************************************************************)
\* [^.] cannot cross this token
HoldsDot(t) == IsUrlTok(t) \/ t.w = "." \/ t.w \in EmailWords

\* what [^.]+ still takes of a token that holds a dot
BeforeDot(t) ==
    IF IsUrlTok(t) THEN <<"https://host">>
    ELSE IF t.w = "bob@example.org" THEN <<"bob@example">>
    ELSE IF t.w = "alice@example.com" THEN <<"alice@example">>
    ELSE <<>>

\* len(word)
InstrWordLen(w) ==
    CASE w \in {"send", "find", "file"} -> 4
      [] w = "check" -> 5
      [] w \in {"please", "notify"} -> 6
      [] w = "meeting" -> 7
      [] w = "schedule" -> 8
      [] w = "bob@example" -> 11
      [] w = "https://host" -> 12
      [] w = "alice@example" -> 13

\* len(instruction) after strip(): the words and one blank between two
RECURSIVE InstructionLen(_)
InstructionLen(instr) ==
    IF instr = <<>> THEN 0
    ELSE InstrWordLen(Head(instr)) + (IF Len(instr) > 1 THEN 1 ELSE 0)
            + InstructionLen(Tail(instr))

\* instruction_patterns: the one-word alternatives of each pattern's head
\* (every other alternative needs a word the documents do not have, and no
\* word of a document ends with an alternative without being equal to it)
INSTRUCTION_PATTERNS ==
    <<{"please", "kindly"},
      {},
      {"task", "tasks"},
      {"instruction", "instructions", "direction", "directions", "guideline",
       "guidelines"},
      {"send", "email", "call", "contact", "schedule", "create", "make", "do",
       "complete", "finish", "submit", "upload", "download", "save", "delete",
       "update", "modify", "change", "edit", "review", "approve", "reject",
       "accept", "decline"},
      {"urgent", "asap", "immediately", "today", "tomorrow"},
      {"download", "upload", "attach"},
      {"notify", "inform", "tell", "ask", "request"},
      {"schedule", "book", "arrange"},
      {"analyze", "calculate", "compare", "review", "check", "verify", "validate",
       "process", "format", "organize"}>>

\* the first index at or after i whose token holds a dot, Len(text) + 1 if none
RECURSIVE CaptureEnd(_, _)
CaptureEnd(text, i) ==
    IF i > Len(text) \/ HoldsDot(text[i]) THEN i ELSE CaptureEnd(text, i + 1)

\* ([^.]+) from token i up to token e
Capture(text, i, e) ==
    [k \in 1..(e - i) |-> text[i + k - 1].w]
        \o (IF e <= Len(text) THEN BeforeDot(text[e]) ELSE <<>>)

\* re.findall(pattern, text): the captures of the non-overlapping matches, left
\* to right, from token i on
RECURSIVE FindAll(_, _, _)
FindAll(text, heads, i) ==
    IF i >= Len(text) THEN <<>>
    ELSE IF text[i].w \in heads /\ ~IsUrlTok(text[i])
            /\ Capture(text, i + 1, CaptureEnd(text, i + 1)) # <<>>
    THEN <<Capture(text, i + 1, CaptureEnd(text, i + 1))>>
            \o FindAll(text, heads, CaptureEnd(text, i + 1) + 1)
    ELSE FindAll(text, heads, i + 1)

\* the matches of one pattern that pass 10 < len(instruction) < 200
PatternInstructions(text, p) ==
    SelectSeq(FindAll(text, INSTRUCTION_PATTERNS[p], 1),
              LAMBDA instr : InstructionLen(instr) > 10 /\ InstructionLen(instr) < 200)

\* unique_instructions
unique_instructions(text) ==
    Dedup(Flatten([p \in 1..Len(INSTRUCTION_PATTERNS) |-> PatternInstructions(text, p)]))

\* word in instruction_lower
InInstruction(instr, word) ==
    \E i \in 1..Len(instr) : instr[i] = word \/ <<instr[i], word>> \in ProperSubstrings

AnyInInstruction(instr, words) == \E word \in words : InInstruction(instr, word)

\* the if / elif categorisation
Category(instr) ==
    IF AnyInInstruction(instr, {"file", "download", "upload", "save", "attach", "open",
                                "read"})
    THEN "file_operations"
    ELSE IF AnyInInstruction(instr, {"email", "send", "reply", "contact", "call",
                                     "notify", "inform"})
    THEN "communication"
    ELSE IF AnyInInstruction(instr, {"schedule", "meeting", "calendar", "book",
                                     "arrange"})
    THEN "calendar"
    ELSE IF AnyInInstruction(instr, {"analyze", "calculate", "review", "check",
                                     "process", "format"})
    THEN "data_processing"
    ELSE "general"

CATEGORIES == <<"file_operations", "communication", "calendar", "data_processing", "general">>

\* categorized_instructions in the order _process_instructions walks it
_extract_instructions_from_text(text) ==
    Flatten([c \in 1..Len(CATEGORIES) |->
                SelectSeq(unique_instructions(text),
                          LAMBDA instr : Category(instr) = CATEGORIES[c])])

\* one entry of processed_instructions with the calls its executor made
Processed(instr, category, success, action, calls) ==
    [instruction |-> instr, category |-> category, success |-> success,
     action |-> action, calls |-> calls]

\* re.findall(r'(?:a|b)\s+([^.]+)', instruction_lower)[0]: the words after the
\* leftmost head that has a word after it, <<>> when nothing matches
search_terms(instr, heads) ==
    LET at == {m \in (1..Len(instr)) \X heads :
                  /\ m[1] + Len(m[2]) <= Len(instr)
                  /\ \A j \in 1..Len(m[2]) : instr[m[1] + j - 1] = m[2][j]}
    IN  IF at = {} THEN <<>>
        ELSE LET m == CHOOSE m \in at : \A n \in at : m[1] <= n[1]
             IN  SubSeq(instr, m[1] + Len(m[2]), Len(instr))

\* instruction_lower.split(word)[-1].strip()
AfterLastWord(instr, word) ==
    LET at == {i \in 1..Len(instr) : instr[i] = word}
    IN  IF at = {} THEN instr
        ELSE SubSeq(instr, (CHOOSE i \in at : \A k \in at : i >= k) + 1, Len(instr))

\* an executor's tool call inside its own try / except
ExecutorCall(instr, category, server, tool, action, arg, down) ==
    LET call == call_tool(server, tool, NoUrl, arg, <<server, tool>> \in down)
    IN  Processed(instr, category, ~Raised(call), IF Raised(call) THEN "error" ELSE action,
                  <<call>>)

NotRecognized(instr, category) == Processed(instr, category, FALSE, "not recognized", <<>>)

_process_file_instruction(instr, down) ==
    IF (InInstruction(instr, "search") \/ InInstruction(instr, "find"))
       /\ search_terms(instr, {<<"search", "for">>, <<"find">>}) # <<>>
    THEN ExecutorCall(instr, "file_operations", "drive", "search", "search",
                      search_terms(instr, {<<"search", "for">>, <<"find">>}), down)
    ELSE NotRecognized(instr, "file_operations")

\* re.search of the address pattern in the instruction: the pattern needs a
\* dot after the "@", so only a whole address matches
email_match(instr) == SelectSeq(instr, LAMBDA w : w \in EmailWords)

_process_communication_instruction(instr, down) ==
    IF (InInstruction(instr, "email") \/ InInstruction(instr, "send"))
       /\ email_match(instr) # <<>>
    THEN ExecutorCall(instr, "communication", "gmail", "send_message", "send_email",
                      email_match(instr)[1], down)
    ELSE NotRecognized(instr, "communication")

_process_calendar_instruction(instr, down) ==
    IF InInstruction(instr, "meeting") \/ InInstruction(instr, "schedule")
    THEN ExecutorCall(instr, "calendar", "calendar", "create_event", "create_event",
                      IF InInstruction(instr, "about")
                      THEN AfterLastWord(instr, "about")
                      ELSE <<"Meeting from file instructions">>,
                      down)
    ELSE NotRecognized(instr, "calendar")

_process_data_instruction(instr, down) ==
    IF InInstruction(instr, "search")
       /\ search_terms(instr, {<<"search", "for">>}) # <<>>
    THEN ExecutorCall(instr, "data_processing", "google", "search", "search",
                      search_terms(instr, {<<"search", "for">>}), down)
    ELSE NotRecognized(instr, "data_processing")

_process_general_instruction(instr) ==
    Processed(instr, "general", TRUE, "acknowledge", <<>>)

\* the if / elif dispatch on the category
Dispatch(instr, down) ==
    CASE Category(instr) = "file_operations" -> _process_file_instruction(instr, down)
      [] Category(instr) = "communication" -> _process_communication_instruction(instr, down)
      [] Category(instr) = "calendar" -> _process_calendar_instruction(instr, down)
      [] Category(instr) = "data_processing" -> _process_data_instruction(instr, down)
      [] OTHER -> _process_general_instruction(instr)

\* _process_instructions: one entry for every instruction
_process_instructions(instructions, down) ==
    [i \in 1..Len(instructions) |-> Dispatch(instructions[i], down)]

\* the call of an executor, as the trace records it
Dispatched(p) ==
    Ev("dispatch", "", p.category, NoUrl, IF p.success THEN "ok" ELSE "failed",
       p.instruction)

\* the calls one file's instructions caused, in order
InstructionEvents(processed) ==
    Flatten([i \in 1..Len(processed) |-> <<Dispatched(processed[i])>> \o processed[i].calls])

\* the lines under "Instruction Processing Results"
InstructionLines(processed) ==
    [i \in 1..Len(processed) |-> Line("instruction", processed[i].success)]

\* the branch of a file whose content was read: the instructions are
\* processed, then every URL of the content is fetched
FileContentAnalysis(acc, rd, processed, failing) ==
    [acc EXCEPT
        !.events = @ \o rd.events \o InstructionEvents(processed)
                     \o FetchEach(bot_extract_urls_from_text(rd.content), failing),
        !.lines = (@ \o <<Line("file_content", TRUE)>>) \o InstructionLines(processed),
        !.processed = TRUE]

\* for file_info in files[:3]: read the file, fetch every URL of its content,
\* stop after the first file whose content was read
RECURSIVE DriveDocumentChain(_, _, _)
DriveDocumentChain(files, env, acc) ==
    IF files = <<>> \/ acc.processed THEN acc
    ELSE LET f == Head(files)
             rd == read_file_content(f, env.down)
         IN  IF f.id = "" THEN DriveDocumentChain(Tail(files), env, acc)
             ELSE IF rd.content = <<>>
             THEN DriveDocumentChain(Tail(files), env,
                                     [acc EXCEPT !.events = @ \o rd.events])
             ELSE FileContentAnalysis(
                      acc, rd,
                      _process_instructions(_extract_instructions_from_text(rd.content),
                                            env.down),
                      env.failing)

\* a calendar event as calendar.get_events returns it: summary, description
\* and location as texts, whether start.dateTime is there, and the e-mail
\* addresses of the attendees
CalEvent(id, title, description, location, hasStart, attendees) ==
    [id |-> id, title |-> title, description |-> description, location |-> location,
     hasStart |-> hasStart, attendees |-> attendees]

\* event_text = f"{event_title} {event_description} {event_location}".strip()
EventText(e) == e.title \o e.description \o e.location

\* extract_date_from_text / extract_time_from_text find something
HasDateOrTime(text) ==
    \E i \in 1..Len(text) : \E k \in 1..Len(text[i].atoms) :
        text[i].atoms[k] \in {":", "-", "am", "pm"}

\* extract_email_from_text: the first address of the text, "" for None
extract_email_from_text(text) ==
    LET m == SelectSeq(text, LAMBDA t : t.w \in EmailWords)
    IN  IF m = <<>> THEN "" ELSE m[1].w

ADD_CUES == {<<"add", "email">>, <<"invite">>, <<"add", "attendee">>, <<"include">>}

REMOVE_CUES ==
    {<<"remove", "email">>, <<"uninvite">>, <<"remove", "attendee">>, <<"exclude">>}

\* list.remove(x): the first occurrence goes
RECURSIVE RemoveFirst(_, _)
RemoveFirst(s, x) ==
    IF s = <<>> THEN <<>>
    ELSE IF Head(s) = x THEN Tail(s)
    ELSE <<Head(s)>> \o RemoveFirst(Tail(s), x)

\* update_params['attendees']: set tells whether the key is there
Attendees(set, list) == [set |-> set, list |-> list]

\* the e-mail add / remove instructions: the address comes from event_text,
\* the cue is looked for in the lower-cased description, add cues first
AttendeeUpdate(email, desc_lower, current_emails) ==
    IF email = "" THEN Attendees(FALSE, <<>>)
    ELSE IF AnyIn(desc_lower, ADD_CUES)
    THEN IF ~InSeq(email, current_emails)
         THEN Attendees(TRUE, Append(current_emails, email))
         ELSE Attendees(FALSE, <<>>)
    ELSE IF AnyIn(desc_lower, REMOVE_CUES)
    THEN IF InSeq(email, current_emails)
         THEN Attendees(TRUE, RemoveFirst(current_emails, email))
         ELSE Attendees(FALSE, <<>>)
    ELSE Attendees(FALSE, <<>>)

\* update_params: times tells whether start_time and end_time are there
UpdateParams(e) ==
    [event_id |-> e.id,
     times |-> e.hasStart /\ HasDateOrTime(EventText(e)),
     attendees |-> AttendeeUpdate(extract_email_from_text(EventText(e)),
                                  Lower(e.description), e.attendees)]

\* if update_needed and event_id: calendar.update_event(event_id, **update_params)
UpdateEvent(e, p, down) ==
    IF (p.times \/ p.attendees.set) /\ e.id # ""
    THEN <<call_tool("calendar", "update_event", NoUrl, p,
                     <<"calendar", "update_event">> \in down)>>
    ELSE <<>>

\* per event: the update the event text asks for, then every URL of the text
RECURSIVE CalendarEventChain(_, _, _)
CalendarEventChain(evs, env, acc) ==
    IF evs = <<>> THEN acc
    ELSE CalendarEventChain(Tail(evs), env,
             [acc EXCEPT
                 !.events = @ \o UpdateEvent(Head(evs), UpdateParams(Head(evs)), env.down)
                              \o FetchEach(bot_extract_urls_from_text(EventText(Head(evs))),
                                           env.failing),
                 !.lines = Append(@, Line("event", TRUE))])

\* one iteration of the for loop over tools_to_use, its try and its except
ExecOne(v, t, env, should, acc) ==
    IF t.server = "wikipedia"
    THEN [acc EXCEPT
             !.events = Append(@, Direct("wikipedia", "_wikipedia_get_page", t.url,
                                         env.failing)),
             !.lines = Append(@, Line("wikipedia.get_page", TRUE))]
    ELSE IF t.server = "web_access"
    THEN [acc EXCEPT
             !.events = Append(@, Direct("web_access", "_web_access_get_content", t.url,
                                         env.failing)),
             !.lines = Append(@, Line("web_access.get_content", TRUE))]
    ELSE LET call == call_tool(t.server, t.tool, t.url, t.arg,
                               <<t.server, t.tool>> \in env.down)
             done == [acc EXCEPT !.events = Append(@, call),
                                 !.lines = Append(@, Line(t.server, ~Raised(call)))]
         IN  IF Raised(call) \/ v # "benign" THEN done
             ELSE IF t.server = "drive" /\ t.tool = "search" /\ should
             THEN DriveDocumentChain(Take(env.files, 3), env, done)
             ELSE IF t.server = "calendar" /\ t.tool = "get_events"
             THEN CalendarEventChain(env.cal, env, done)
             ELSE done

RECURSIVE ExecLoop(_, _, _, _, _)
ExecLoop(v, tools, env, should, acc) ==
    IF tools = <<>> THEN acc
    ELSE ExecLoop(v, Tail(tools), env, should, ExecOne(v, Head(tools), env, should, acc))

\* a fallback that runs whatever tools_to_use holds
FallbackAlways(tools, u, down) ==
    [events |-> <<call_tool("google", "search", NoUrl, u, <<"google", "search">> \in down)>>,
     lines |-> <<Line("google.search (fallback)", <<"google", "search">> \notin down)>>]

\* if not tools_to_use: google.search with the utterance, in its own try
Fallback(tools, u, down) ==
    IF tools = <<>>
    THEN [events |-> <<call_tool("google", "search", NoUrl, u,
                                 <<"google", "search">> \in down)>>,
          lines |-> <<Line("google.search (fallback)", <<"google", "search">> \notin down)>>]
    ELSE [events |-> <<>>, lines |-> <<>>]

(***************************************************************************)
(* image_processor.py: image extraction and image processing               *)
(***************************************************************************)
\* what a pattern with a capture group yields: findall returns the groups,
\* img_url[0] is the file extension alone
ExtItem(e) == Url("", "", <<>>, "", <<>>, e)

IMAGE_EXT == {"jpg", "jpeg", "png", "gif", "bmp", "webp", "svg", "ico"}

\* path segments that begin with "image", "img", "photo"
ImageSegments == {"image", "images", "image1"}

ImgSegments == {"img", "imgs"}

PhotoSegments == {"photo", "photos"}

\* the matches of the five image_patterns, pattern by pattern
ImageMatches(text) ==
    LET urls == [i \in 1..Len(SelectSeq(text, IsUrlTok)) |-> SelectSeq(text, IsUrlTok)[i].url]
        withExt == SelectSeq(urls, LAMBDA u : u.ext \in IMAGE_EXT)
        exts == [i \in 1..Len(withExt) |-> ExtItem(withExt[i].ext)]
        under(S) == SelectSeq(urls, LAMBDA u : Range(u.path) \cap S # {})
    IN  exts \o exts \o under(ImageSegments) \o under(ImgSegments) \o under(PhotoSegments)

\* image_processor.is_safe_url: the classifier without the allow-list
image_is_safe_url(u) ==
    IF NetlocIn(u, BLOCKED_DOMAINS) THEN FALSE
    ELSE IF NetlocIn(u, LOCAL_DOMAINS) THEN FALSE
    ELSE ~Suspicious(u)

\* extract_images_from_text: list(set(cleaned_images)); the iteration order
\* of a set of strings follows the hash seed of the run, given here as the
\* sequence in which the run would list all image items
extract_images_from_text(text, order) ==
    LET cleaned == Range(SelectSeq(ImageMatches(text), image_is_safe_url))
    IN  SelectSeq(order, LAMBDA x : x \in cleaned)

\* one entry of the image results
ImageResult(u, is_safe) == [image_url |-> u, is_safe |-> is_safe]

\* process_image_with_google_search: google.search, then web_access for an
\* item that holds "http"; only a failed search makes the result unsafe
process_image_with_google_search(img, env) ==
    LET search == call_tool("google", "search", img, <<>>, <<"google", "search">> \in env.down)
        fetch == call_tool("web_access", "get_content", img, <<>>, img \in env.failing)
    IN  IF Raised(search)
        THEN [events |-> <<search>>, results |-> <<ImageResult(img, FALSE)>>]
        ELSE [events |-> <<search>> \o (IF img.scheme # "" THEN <<fetch>> ELSE <<>>),
              results |-> <<ImageResult(img, TRUE)>>]

RECURSIVE ProcessImages(_, _)
ProcessImages(imgs, env) ==
    IF imgs = <<>> THEN [events |-> <<>>, results |-> <<>>]
    ELSE LET h == process_image_with_google_search(Head(imgs), env)
             r == ProcessImages(Tail(imgs), env)
         IN  [events |-> h.events \o r.events, results |-> h.results \o r.results]

(***************************************************************************)
(* main.py: the Gmail read chain                                           *)
(***************************************************************************)
\* the is_safe_url evaluations and the URLs of a list of message bodies
AllChecks(bodies) == Flatten([i \in 1..Len(bodies) |-> CheckEvents(bodies[i])])

AllUrls(bodies) == Flatten([i \in 1..Len(bodies) |-> extract_urls_from_text(bodies[i])])

AllImages(bodies, order) ==
    Flatten([i \in 1..Len(bodies) |-> extract_images_from_text(bodies[i], order)])

\* _extract_and_access_urls_from_emails (mcp_code) and
\* _extractAnd_access_urls_from_emails (benign, which adds the images and
\* cuts them at max_urls)
extract_and_access_urls_from_emails(v, bodies, max_urls, env) ==
    LET unique_urls == Dedup(AllUrls(bodies))
        fetched == process_urls_safely(unique_urls, max_urls, env.failing)
        unique_images == Dedup(AllImages(bodies, env.order))
        imgs == IF v = "benign" THEN ProcessImages(Take(unique_images, max_urls), env)
                ELSE [events |-> <<>>, results |-> <<>>]
    IN  [events |-> AllChecks(bodies) \o fetched.events \o imgs.events,
         urls |-> fetched.results,
         images |-> imgs.results]

(***************************************************************************)
(* main.py: process_message and process_message_with_tool_chaining         *)
(***************************************************************************)
\* max_urls=5, the cap process_message passes to the chaining method
RouterMaxUrls == 5

\* what one request leaves behind: whether an exception left the handler,
\* which handler built the response, tools_to_use, the trace, the lines of
\* the response and the URL and image results
Outcome(raised, via, tools, evs, lines, urls, images) ==
    [raised |-> raised, via |-> via, tools |-> tools, events |-> evs,
     lines |-> lines, urls |-> urls, images |-> images]

\* the words the message id pattern [a-f0-9]{16,} matches
MessageIdWords == {"0123456789abcdef"}

\* "http" in user_input
HasHttp(u) == Has(u, <<"http">>)

\* a message of the mailbox
Message(id, body) == [id |-> id, body |-> body]

RECURSIVE process_message(_, _, _)
RECURSIVE process_message_with_tool_chaining(_, _, _, _, _)

\* the response of the chaining method: the trace so far and what
\* _extract_and_access_urls_from_emails returned
ChainOutcome(evs, lines, x) ==
    Outcome(FALSE, "chain", <<>>, evs \o x.events, lines, x.urls, x.images)

\* the chain behind a fetched message body
ChainOnBody(v, body, max_urls, enable, env, evs, lines) ==
    IF enable /\ body # <<>>
    THEN ChainOutcome(evs, lines,
                      extract_and_access_urls_from_emails(v, <<body>>, max_urls, env))
    ELSE Outcome(FALSE, "chain", <<>>, evs, lines, <<>>, <<>>)

process_message_with_tool_chaining(v, u, max_urls, enable, env) ==
    LET lo == Lower(u)
        gm == call_tool("gmail", "get_messages", NoUrl, <<>>,
                        <<"gmail", "get_messages">> \in env.down)
        mc(id) == call_tool("gmail", "get_message_content", NoUrl, id,
                            <<"gmail", "get_message_content">> \in env.down)
        ids == SelectSeq(u, LAMBDA t : t.w \in MessageIdWords)
        known(id) == SelectSeq(env.mailbox, LAMBDA m : m.id = id)
    IN  IF AnyIn(lo, GMAIL_KW)
        THEN IF Has(lo, <<"get_messages">>) \/ Has(lo, <<"check">>) \/ Has(lo, <<"read">>)
             THEN IF Raised(gm)
                  THEN Outcome(FALSE, "chain", <<>>, <<gm>>,
                               <<Line("gmail.get_messages", FALSE)>>, <<>>, <<>>)
                  ELSE IF enable /\ env.mailbox # <<>>
                  THEN LET first == env.mailbox[1]
                       IN  IF Raised(mc(first.id))
                           THEN Outcome(FALSE, "chain", <<>>, <<gm, mc(first.id)>>,
                                        <<Line("gmail.get_messages", TRUE)>>, <<>>, <<>>)
                           ELSE ChainOnBody(v, first.body, max_urls, TRUE, env,
                                            <<gm, mc(first.id)>>,
                                            <<Line("gmail.get_messages", TRUE)>>)
                  ELSE Outcome(FALSE, "chain", <<>>, <<gm>>,
                               <<Line("gmail.get_messages", TRUE)>>, <<>>, <<>>)
             ELSE IF Has(lo, <<"get_message_content">>) \/ Has(lo, <<"read", "message">>)
             THEN IF ids = <<>>
                  THEN Outcome(FALSE, "chain", <<>>, <<>>,
                               <<Line("gmail.get_message_content", FALSE)>>, <<>>, <<>>)
                  ELSE IF Raised(mc(ids[1].w)) \/ known(ids[1].w) = <<>>
                  THEN Outcome(FALSE, "chain", <<>>, <<mc(ids[1].w)>>,
                               <<Line("gmail.get_message_content", ~Raised(mc(ids[1].w)))>>,
                               <<>>, <<>>)
                  ELSE ChainOnBody(v, known(ids[1].w)[1].body, max_urls, enable, env,
                                   <<mc(ids[1].w)>>,
                                   <<Line("gmail.get_message_content", TRUE)>>)
             ELSE Outcome(FALSE, "chain", <<>>, <<>>, <<>>, <<>>, <<>>)
        ELSE IF HasHttp(u)
        THEN IF extract_urls_from_text(u) # <<>>
             THEN ChainOnBody(v, u, max_urls, TRUE, env, CheckEvents(u), <<>>)
             ELSE Outcome(FALSE, "chain", <<>>, CheckEvents(u), <<>>, <<>>, <<>>)
        ELSE process_message(v, u, env)

\* process_message after the detections: r is what they decided
Respond(v, u, env, r) ==
    LET should == AnyIn(Lower(u), FILE_CONTENT_KW)
        ex == ExecLoop(v, r.tools, env, should,
                       [events |-> r.events, lines |-> <<>>, processed |-> FALSE])
        fb == Fallback(r.tools, u, env.down)
    IN  IF r.exit = "raise"
        THEN Outcome(TRUE, "router", <<>>, <<>>, <<>>, <<>>, <<>>)
        ELSE IF r.exit = "chain"
        THEN process_message_with_tool_chaining(v, u, RouterMaxUrls, TRUE, env)
        ELSE Outcome(FALSE, "router", r.tools, ex.events \o fb.events,
                     ex.lines \o fb.lines, <<>>, <<>>)

process_message(v, u, env) == Respond(v, u, env, Route(v, u))

(***************************************************************************)
(* The requests                                                            *)
(***************************************************************************)
\* IntelligentChatBot.process_message on the utterance of the request
ProcessMessage ==
    /\ op = "init"
    /\ input.entry = "process_message"
    /\ op' = "process_message"
    /\ result' = process_message(input.variant, input.utterance, input.env)
    /\ events' = result'.events
    /\ UNCHANGED input

\* IntelligentChatBot.process_message_with_tool_chaining, the entry point of
\* the command line
ProcessMessageWithToolChaining ==
    /\ op = "init"
    /\ input.entry = "process_message_with_tool_chaining"
    /\ op' = "process_message_with_tool_chaining"
    /\ result' = process_message_with_tool_chaining(input.variant, input.utterance,
                                                    input.max_urls, input.enable, input.env)
    /\ events' = result'.events
    /\ UNCHANGED input

(***************************************************************************)
(* Specification of the router: every short utterance over the vocabulary  *)
(***************************************************************************)
\* longest utterance, in tokens
MaxUtter == 2

Vocabulary ==
    {Word("Hello"), Word("Search"), Word("where"), Word("slack"), Word("drive"),
     Word("calendar"), Word("gmail"), Word("read"), Word("summarize"), Word("send"),
     Word("reference"), UrlTok(GoodUrl), UrlTok(BlockedUrl), UrlTok(WikiUrl)}

Utterances == SeqsUpTo(Vocabulary, MaxUtter)

\* what the providers hold and how they answer during one request
Env(down, failing, mailbox, files, cal, order) ==
    [down |-> down, failing |-> failing, mailbox |-> mailbox, files |-> files,
     cal |-> cal, order |-> order]

\* all image items of the model, in one listing order
ImageItems == <<ExtItem("png"), PhotoUrl, ImgDirUrl>>

LinkBody == <<UrlTok(GoodUrl), UrlTok(BlockedUrl), UrlTok(OtherUrl)>>

\* at most one provider is out of order during a request
RouterEnvs ==
    {Env(c[1], c[2],
         <<Message("m1", LinkBody)>>,
         <<DriveFile("f1", "gdoc", LinkBody)>>,
         <<CalEvent("e1", <<>>, LinkBody, <<>>, TRUE, <<>>)>>,
         ImageItems) :
        c \in {<<{}, {}>>, <<{<<"google", "search">>}, {}>>,
               <<{<<"gmail", "get_messages">>}, {}>>, <<{}, {GoodUrl}>>}}

Variants == {"mcp_code", "benign"}

Request(entry, v, u, max_urls, enable, env) ==
    [entry |-> entry, variant |-> v, utterance |-> u, max_urls |-> max_urls,
     enable |-> enable, env |-> env]

\* the requests of the model: process_message as the chat loop calls it, and
\* process_message_with_tool_chaining with the caller's cap and switch
Init ==
    /\ op = "init"
    /\ events = <<>>
    /\ result = <<>>
    /\ \E v \in Variants, u \in Utterances, env \in RouterEnvs :
          \/ input = Request("process_message", v, u, RouterMaxUrls, TRUE, env)
          \/ \E max_urls \in {0, MaxCap}, enable \in BOOLEAN :
                input = Request("process_message_with_tool_chaining", v, u,
                                max_urls, enable, env)

Next == ProcessMessage \/ ProcessMessageWithToolChaining

Spec == Init /\ [][Next]_vars

(***************************************************************************)
(* Properties of the router and of the chains behind it                    *)
(***************************************************************************)
\* the indices of the trace at which a URL is handed to a secondary fetch
FetchIndices ==
    {i \in 1..Len(events) :
        \/ /\ events[i].kind = "call_tool"
           /\ <<events[i].server, events[i].tool>>
                 \in {<<"wikipedia", "get_page">>, <<"web_access", "get_content">>}
        \/ events[i].kind = "direct"}

\* C1: in every run of the router and of the chains, a URL is handed to a
\* secondary fetch only after is_safe_url was evaluated on that URL and
\* returned true.
C1_FetchOnlyAfterSafe ==
    \A j \in FetchIndices :
        \E i \in 1..(j - 1) :
            /\ events[i].kind = "is_safe_url"
            /\ events[i].url = events[j].url
            /\ events[i].outcome = "true"

\* C4: in every chain run the number of URLs handed to the secondary fetch
\* never exceeds the max_urls the caller supplied, and the fetched URLs are
\* the first max_urls entries of the de-duplicated list extracted from the
\* free text.
C4_FetchesWithinCap ==
    op = "process_message_with_tool_chaining" =>
        Cardinality(FetchIndices) <= input.max_urls

\* C7: every (provider, operation) pair passed to MCPClient.call_tool has a
\* branch in the dispatcher; no call ends in its "not found" branch.
C7_OnlyRegisteredCalls ==
    \A i \in 1..Len(events) :
        events[i].kind = "call_tool" => events[i].outcome # "notfound"

\* a keyword check of process_message has its condition true
KeywordCheckFires(v, u) ==
    LET lo == Lower(u)
    IN  \/ v = "benign" /\ AnyIn(lo, DRIVE_KW) /\ ~AnyIn(lo, WEB_KW)
        \/ AnyIn(lo, SEARCH_KW \cup INFO_KW \cup WEATHER_KW)
        \/ AnyIn(lo, SLACK_KW) /\ ~AnyIn(lo, MAIL_KW)
        \/ AnyIn(lo, MAPS_KW)
        \/ v = "mcp_code" /\ AnyIn(lo, DRIVE_KW)
        \/ v = "benign" /\ AnyIn(lo, FILE_LIST_KW)
        \/ AnyIn(lo, CALENDAR_KW)
        \/ AnyIn(lo, GMAIL_KW)
        \/ AnyIn(lo, REFERENCE_KW) /\ AnyIn(lo, SITE_KW)

\* the response holds the line of the fallback search
FallbackFired ==
    /\ op = "process_message"
    /\ \E i \in 1..Len(result.lines) : result.lines[i].label = "google.search (fallback)"

\* the invocations of the trace
Invocations == {i \in 1..Len(events) : events[i].kind \in {"call_tool", "direct"}}

\* the only invocation of the request is google.search on the utterance
OnlyFallbackSearch ==
    /\ Cardinality(Invocations) = 1
    /\ \A i \in Invocations :
          /\ events[i].kind = "call_tool"
          /\ events[i].server = "google" /\ events[i].tool = "search"
          /\ events[i].arg = input.utterance

\* C8 as stated: the fallback google.search is issued exactly when the
\* utterance fires no keyword check and contains no URL, with the unmodified
\* utterance as query and as the only invocation.
C8_FallbackIffNoKeywordNoUrl ==
    op = "process_message" =>
        /\ FallbackFired <=>
              (/\ ~KeywordCheckFires(input.variant, input.utterance)
               /\ \A i \in 1..Len(input.utterance) : ~IsUrlTok(input.utterance[i]))
        /\ FallbackFired => OnlyFallbackSearch

\* C8 amended: the fallback google.search is issued exactly when the
\* utterance fires no keyword check and extract_urls_from_text returns no URL
\* for it (it holds no URL that is_safe_url accepts); the query is the
\* unmodified utterance and the search is the only invocation.
C8_FallbackIffNoKeywordNoSafeUrl ==
    op = "process_message" =>
        /\ FallbackFired <=>
              (/\ ~KeywordCheckFires(input.variant, input.utterance)
               /\ extract_urls_from_text(input.utterance) = <<>>)
        /\ FallbackFired => OnlyFallbackSearch

\* the fallback ran for an utterance that holds an upper-case word and a URL
\* the classifier rejects
C8_FallbackWithRejectedUrl ==
    /\ FallbackFired
    /\ OnlyFallbackSearch
    /\ \E i \in 1..Len(input.utterance) : input.utterance[i].url = BlockedUrl
    /\ \E i \in 1..Len(input.utterance) : input.utterance[i].w = "Hello"


(***************************************************************************)
(* Specification of the create-event branch: utterances with a clock time, *)
(* a duration, a date and an event name                                    *)
(***************************************************************************)
\* the string a token's characters spell
RECURSIVE Spell(_)
Spell(atoms) == IF atoms = <<>> THEN "" ELSE Head(atoms) \o Spell(Tail(atoms))

\* a token written character by character
CharTok(atoms) == Tok(Spell(atoms), NoUrl, atoms)

\* "h:mm" directly followed by ap ("" for none)
ClockTok(hd, md, ap) == CharTok(hd \o <<":">> \o md \o (IF ap = "" THEN <<>> ELSE <<ap>>))

\* the word "minutes": the duration pattern matches its first three letters
MinutesTok == Tok("minutes", NoUrl, <<"min">>)

HourDigits == {<<"3">>, <<"1", "2">>, <<"1", "3">>, <<"2", "5">>}
MinuteDigits == {<<"0", "0">>, <<"3", "0">>, <<"7", "5">>}
AmPm == {"", "am", "pm", "PM"}

\* "at <clock>", "at 1999", or no time at all
ClockParts ==
    {<<>>, <<Word("at"), CharTok(<<"1", "9", "9", "9">>)>>}
    \cup {<<Word("at"), ClockTok(hd, md, ap)>> :
             hd \in HourDigits, md \in MinuteDigits, ap \in AmPm}

\* "for N minutes", or no duration
DurationParts ==
    {<<>>} \cup {<<Word("for"), CharTok(n), MinutesTok>> :
                    n \in {<<"1", "5">>, <<"1", "2", "0">>}}

\* "on 2024-03-15", or no date
DateParts ==
    {<<>>, <<Word("on"),
             CharTok(<<"2", "0", "2", "4", "-", "0", "3", "-", "1", "5">>)>>}

NameParts == {<<>>, <<Word("called"), Word("Standup")>>}

\* "create event [on <date>] [at <clock>] [for N minutes] [called Standup]",
\* the time before or after the duration
CalendarUtterances ==
    {<<Word("create"), Word("event")>> \o d \o c \o m \o n :
        d \in DateParts, c \in ClockParts, m \in DurationParts, n \in NameParts}
    \cup
    {<<Word("create"), Word("event")>> \o d \o m \o c \o n :
        d \in DateParts, c \in ClockParts, m \in DurationParts, n \in NameParts}

\* the calendar provider answers, or is out of order
CalendarEnvs ==
    {Env(down, {}, <<>>, <<>>, <<>>, ImageItems) :
        down \in {{}, {<<"calendar", "create_event">>}}}

InitCalendar ==
    /\ op = "init"
    /\ events = <<>>
    /\ result = <<>>
    /\ \E v \in Variants, u \in CalendarUtterances, env \in CalendarEnvs :
          input = Request("process_message", v, u, RouterMaxUrls, TRUE, env)

NextCalendar == ProcessMessage

SpecCalendar == InitCalendar /\ [][NextCalendar]_vars

\* the clock tokens of the utterance that carry am/pm
StatedClocks ==
    {i \in 1..Len(input.utterance) :
        LET a == input.utterance[i].atoms
        IN  ":" \in Range(a) /\ a[Len(a)] \in {"am", "pm", "PM"}}

\* the hour as written, and hour and minute in 24-hour format, of the clock
\* token at i
StatedTime(i) ==
    LET a == input.utterance[i].atoms
        c == CHOOSE k \in 1..Len(a) : a[k] = ":"
        h == IntOf(SubSeq(a, 1, c - 1))
        ap == LowerStr(a[Len(a)])
    IN  [stated |-> h,
         hour |-> IF ap = "pm" /\ h # 12 THEN h + 12
                  ELSE IF ap = "am" /\ h = 12 THEN 0 ELSE h,
         minute |-> IntOf(SubSeq(a, c + 1, c + 2))]

\* the N of "for N minutes", 10 when the utterance states no duration
StatedDuration ==
    LET at == {i \in 2..Len(input.utterance) : input.utterance[i] = MinutesTok}
    IN  IF at = {} THEN 10
        ELSE IntOf(input.utterance[(CHOOSE i \in at : TRUE) - 1].atoms)

\* the calendar.create_event invocations the router produced
CreateEventTools ==
    {i \in 1..Len(result.tools) :
        result.tools[i].server = "calendar" /\ result.tools[i].tool = "create_event"}

\* C9: process_message returns a response for every utterance and never
\* raises; a create-event clock time with hour above 23 or minute above 59
\* becomes an error entry of the response.
C9_NeverRaises ==
    op = "process_message" => ~result.raised

\* C10: for a create-event utterance with a clock time h:mm followed by am/pm
\* (h in 1..12, mm below 60), the calendar.create_event invocation starts at
\* the 24-hour conversion of the stated time and ends exactly N minutes
\* later, N being the stated duration, or 10 when none is stated.
C10_StartAndEndAsStated ==
    op = "process_message" =>
        \A i \in StatedClocks :
            LET st == StatedTime(i)
            IN  (st.stated \in 1..12 /\ st.minute <= 59) =>
                    /\ ~result.raised
                    /\ Cardinality(CreateEventTools) = 1
                    /\ \A t \in CreateEventTools :
                          /\ result.tools[t].arg.start_time = DateTime(0, st.hour, st.minute)
                          /\ result.tools[t].arg.end_time
                                = AddMinutes(DateTime(0, st.hour, st.minute), StatedDuration)


(***************************************************************************)
(* api_server.py (mcp_code) and image_processor.py: the chain functions    *)
(* that take the fetched message list                                      *)
(***************************************************************************)
\* api_server.process_url_safely: the URL as extracted, no sanitize_url; a
\* failure keeps the parsed domain
process_url_safely(u, failing) ==
    LET isWiki == IsWikipedia(u)
        call == IF isWiki
                THEN call_tool("wikipedia", "get_page", u, <<>>, u \in failing)
                ELSE call_tool("web_access", "get_content", u, <<>>, u \in failing)
    IN  IF isWiki /\ ~IsWikiPage(u)
        THEN [results |-> <<UrlResult(u, u.host, "error", TRUE)>>, events |-> <<>>]
        ELSE IF Raised(call)
        THEN [results |-> <<UrlResult(u, u.host, "error", FALSE)>>, events |-> <<call>>]
        ELSE [results |-> <<UrlResult(u, u.host,
                                      IF isWiki THEN "wikipedia" ELSE "web_content",
                                      TRUE)>>,
              events |-> <<call>>]

\* for url in urls_to_process: result = await process_url_safely(url)
RECURSIVE ProcessEach(_, _)
ProcessEach(urls, failing) ==
    IF urls = <<>> THEN [results |-> <<>>, events |-> <<>>]
    ELSE LET h == process_url_safely(Head(urls), failing)
             r == ProcessEach(Tail(urls), failing)
         IN  [results |-> h.results \o r.results, events |-> h.events \o r.events]

\* api_server.process_gmail_with_url_chaining: URLs only
process_gmail_with_url_chaining(bodies, max_urls, env) ==
    LET unique_urls == Dedup(AllUrls(bodies))
        fetched == ProcessEach(Take(unique_urls, max_urls), env.failing)
    IN  Outcome(FALSE, "chain", <<>>, AllChecks(bodies) \o fetched.events, <<>>,
                fetched.results, <<>>)

\* image_processor.process_gmail_with_image_and_url_chaining: each URL goes
\* through process_urls_safely([url], mcp_client, 1), each image through
\* process_image_with_google_search
process_gmail_with_image_and_url_chaining(bodies, max_urls, process_images, env) ==
    LET unique_urls == Dedup(AllUrls(bodies))
        unique_images == IF process_images THEN Dedup(AllImages(bodies, env.order))
                         ELSE <<>>
        fetched == Batch(Take(unique_urls, max_urls), env.failing)
        imgs == ProcessImages(Take(unique_images, max_urls), env)
    IN  Outcome(FALSE, "chain", <<>>,
                AllChecks(bodies) \o fetched.events \o imgs.events, <<>>,
                fetched.results, imgs.results)

\* the bodies of the fetched message list
Bodies(mailbox) == [i \in 1..Len(mailbox) |-> mailbox[i].body]

ProcessGmailWithUrlChaining ==
    /\ op = "init"
    /\ input.entry = "process_gmail_with_url_chaining"
    /\ LET r == process_gmail_with_url_chaining(Bodies(input.env.mailbox),
                                                input.max_urls, input.env)
       IN  /\ op' = "process_gmail_with_url_chaining"
           /\ events' = r.events
           /\ result' = r
    /\ UNCHANGED input

ProcessGmailWithImageAndUrlChaining ==
    /\ op = "init"
    /\ input.entry = "process_gmail_with_image_and_url_chaining"
    /\ LET r == process_gmail_with_image_and_url_chaining(
                    Bodies(input.env.mailbox), input.max_urls, input.enable, input.env)
       IN  /\ op' = "process_gmail_with_image_and_url_chaining"
           /\ events' = r.events
           /\ result' = r
    /\ UNCHANGED input

(***************************************************************************)
(* Specification of the Gmail read chain over a fetched message list       *)
(***************************************************************************)
\* messages in the fetched list
NumMessages == 5
\* most URLs in one message body
MaxBody == 3

ChainUrls == {GoodUrl, WikiUrl, BlockedUrl, ImageUrl, PhotoUrl}

\* the bodies with links: duplicate-free sequences of URLs
LinkBodies ==
    {[i \in 1..Len(s) |-> UrlTok(s[i])] : s \in DistinctSeqs(ChainUrls, MaxBody)}

\* a list in which message k alone holds the links
MailboxWith(k, body) ==
    [i \in 1..NumMessages |->
        Message(IF i = 1 THEN "m1" ELSE IF i = 2 THEN "m2" ELSE IF i = 3 THEN "m3"
                ELSE IF i = 4 THEN "m4" ELSE "m5+",
                IF i = k THEN body ELSE <<Word("Hello")>>)]

ChainEnv(k, body) == Env({}, {}, MailboxWith(k, body), <<>>, <<>>, ImageItems)

InitChain ==
    /\ op = "init"
    /\ events = <<>>
    /\ result = <<>>
    /\ \E k \in 1..NumMessages, body \in LinkBodies, max_urls \in 0..(MaxCap + 1) :
          \/ input = Request("process_gmail_with_url_chaining", "mcp_code", <<>>,
                             max_urls, TRUE, ChainEnv(k, body))
          \/ \E process_images \in BOOLEAN :
                input = Request("process_gmail_with_image_and_url_chaining", "benign",
                                <<>>, max_urls, process_images, ChainEnv(k, body))
          \/ \E v \in Variants :
                input = Request("process_message_with_tool_chaining", v,
                                <<Word("Read"), Word("gmail")>>, max_urls, TRUE,
                                ChainEnv(k, body))

NextChain ==
    \/ ProcessGmailWithUrlChaining
    \/ ProcessGmailWithImageAndUrlChaining
    \/ ProcessMessageWithToolChaining

SpecChain == InitChain /\ [][NextChain]_vars

\* the URLs of message 3 when it alone holds links
Links == {input.env.mailbox[3].body[i].url : i \in 1..Len(input.env.mailbox[3].body)}

\* the case of C3: five messages, only message 3 has links, which are one
\* safe URL, one blocked URL and one image URL; the cap is 3 and chaining
\* (with image processing) is on
OneSafeOneBlockedOneImage ==
    /\ op # "init"
    /\ Len(input.env.mailbox) = 5
    /\ input.max_urls = 3
    /\ input.enable
    /\ \A i \in {1, 2, 4, 5} : extract_urls_from_text(input.env.mailbox[i].body) = <<>>
    /\ Len(input.env.mailbox[3].body) = 3
    /\ Cardinality(Links \cap {GoodUrl, WikiUrl}) = 1
    /\ BlockedUrl \in Links
    /\ Cardinality(Links \cap {ImageUrl, PhotoUrl}) = 1

\* C3: in that case the chain produces exactly one URL result, for the safe
\* URL, none for the blocked URL, and exactly one image-processing result.
C3_OneUrlResultOneImageResult ==
    OneSafeOneBlockedOneImage =>
        /\ Len(result.urls) = 1
        /\ result.urls[1].url \in Links \cap {GoodUrl, WikiUrl}
        /\ \A i \in 1..Len(result.urls) : result.urls[i].url # BlockedUrl
        /\ Len(result.images) = 1


(***************************************************************************)
(* Specification of the chaining step run twice on the same message content*)
(***************************************************************************)
\* the orders in which a run can list the image items: list(set(...)) of
\* strings follows the interpreter's hash seed, which differs between runs
\* of the program unless PYTHONHASHSEED is fixed
ListingOrders ==
    {p \in [1..Len(ImageItems) -> Range(ImageItems)] :
        \A i, j \in 1..Len(ImageItems) : i # j => p[i] # p[j]}

RerunUrls == {GoodUrl, ImageUrl, PhotoUrl, ImgDirUrl}

\* a fetched message body, the cap, and the listing order of each run
Rerun(body, max_urls, first, second) ==
    [entry |-> "_extractAnd_access_urls_from_emails", body |-> body,
     max_urls |-> max_urls, first |-> first, second |-> second]

InitRerun ==
    /\ op = "init"
    /\ events = <<>>
    /\ result = <<>>
    /\ \E s \in DistinctSeqs(RerunUrls, MaxBody), max_urls \in 0..MaxCap,
          first \in ListingOrders, second \in ListingOrders :
          input = Rerun([i \in 1..Len(s) |-> UrlTok(s[i])], max_urls, first, second)

\* _extractAnd_access_urls_from_emails([{"body": body}], max_urls)
FirstRun ==
    /\ op = "init"
    /\ input.entry = "_extractAnd_access_urls_from_emails"
    /\ LET r == extract_and_access_urls_from_emails(
                    "benign", <<input.body>>, input.max_urls,
                    Env({}, {}, <<>>, <<>>, <<>>, input.first))
       IN  /\ op' = "first_run"
           /\ events' = r.events
           /\ result' = <<r>>
    /\ UNCHANGED input

\* the same call on the same body with the same cap
SecondRun ==
    /\ op = "first_run"
    /\ LET r == extract_and_access_urls_from_emails(
                    "benign", <<input.body>>, input.max_urls,
                    Env({}, {}, <<>>, <<>>, <<>>, input.second))
       IN  /\ op' = "second_run"
           /\ events' = events \o r.events
           /\ result' = Append(result, r)
    /\ UNCHANGED input

NextRerun == FirstRun \/ SecondRun

SpecRerun == InitRerun /\ [][NextRerun]_vars

\* the secondary invocations of a run: provider, operation and target
InvocationSet(evs) ==
    {<<evs[i].server, evs[i].tool, evs[i].url>> :
        i \in {k \in 1..Len(evs) : evs[k].kind = "call_tool"}}

\* C6: running the Gmail chaining step twice on the same message content
\* with the same cap selects the same URLs and the same image URLs, also
\* when there are more extracted images than the cap allows.
C6_SameInvocationsOnRerun ==
    op = "second_run" =>
        InvocationSet(result[1].events) = InvocationSet(result[2].events)


(***************************************************************************)
(* api_clients.py: gmail.summarize_and_send                                *)
(***************************************************************************)
\* the sentence end "." as a token of its own
Period == Word(".")

\* len(w) for the words of the message bodies of the model
WordLen(w) ==
    CASE w = "please" -> 6 [] w = "Please" -> 6 [] w = "today" -> 5
      [] w = "meeting" -> 7 [] w = "hello" -> 5 [] w = "." -> 1
      [] w = "password:" -> 9 [] w = "hunter2" -> 7
      [] w = "api_key=sk123secret" -> 19
      [] OTHER -> 1

\* len(text.strip()) for a text of words joined by single blanks
RECURSIVE TextLen(_)
TextLen(text) ==
    IF text = <<>> THEN 0
    ELSE WordLen(text[1].w) + (IF Len(text) > 1 THEN 1 + TextLen(Tail(text)) ELSE 0)

\* the keywords of action_patterns, in pattern order
ACTION_KW ==
    <<"please", "need", "request", "urgent", "deadline", "meeting", "call",
      "email", "update", "confirm">>

\* the index of the first "." at or after i, Len + 1 when there is none
RECURSIVE NextPeriod(_, _)
NextPeriod(text, i) ==
    IF i > Len(text) \/ text[i] = Period THEN i ELSE NextPeriod(text, i + 1)

\* re.findall(kw + r'\s+([^.]+)', content, re.IGNORECASE) from index i on:
\* the words after kw up to the next ".", the scan resuming behind each match
RECURSIVE ActionMatches(_, _, _)
ActionMatches(text, kw, i) ==
    IF i >= Len(text) THEN <<>>
    ELSE IF LowerStr(text[i].w) = kw /\ text[i + 1] # Period
    THEN LET e == NextPeriod(text, i + 1)
         IN  <<SubSeq(text, i + 1, e - 1)>> \o ActionMatches(text, kw, e)
    ELSE ActionMatches(text, kw, i + 1)

\* a highlight: its label and the words after it
Highlight(label, words) == [label |-> label, words |-> words]

\* the highlights of the action patterns: matches longer than 10 characters
ActionHighlights(text) ==
    Flatten([k \in 1..Len(ACTION_KW) |->
        LET m == SelectSeq(ActionMatches(text, ACTION_KW[k], 1),
                           LAMBDA x : TextLen(x) > 10)
        IN  [j \in 1..Len(m) |-> Highlight("Action required:", m[j])]])

TIMELINE_WORDS == {"today", "tomorrow"}

TOPIC_WORDS == {"project", "meeting", "report", "budget", "client", "team",
                "update", "status", "issue", "problem", "solution", "plan"}

\* match.title() for the topic words of the model
Title(w) == IF LowerStr(w) = "meeting" THEN "Meeting" ELSE w

\* the highlights of date_patterns ("Timeline:", the match as written) and of
\* topic_patterns ("Topic:", the match in title case)
WordHighlights(text, label, S) ==
    LET m == SelectSeq(text, LAMBDA t : LowerStr(t.w) \in S)
    IN  [j \in 1..Len(m) |->
            Highlight(label, <<IF label = "Topic:" THEN Word(Title(m[j].w)) ELSE m[j]>>)]

\* re.split(r'[.!?]+', content): the runs of words between periods
RECURSIVE Sentences(_, _)
Sentences(text, i) ==
    IF i > Len(text) THEN <<>>
    ELSE LET e == NextPeriod(text, i)
         IN  (IF e > i THEN <<SubSeq(text, i, e - 1)>> ELSE <<>>) \o Sentences(text, e + 1)

\* content[:150], cut at a word boundary
RECURSIVE CutAt(_, _)
CutAt(text, n) ==
    IF text = <<>> \/ TextLen(text) <= n THEN text
    ELSE CutAt(SubSeq(text, 1, Len(text) - 1), n)

\* _extract_highlights_from_content: the words of the paragraph it returns
extract_highlights_from_content(content) ==
    LET highlights == ActionHighlights(content)
                        \o WordHighlights(content, "Timeline:", TIMELINE_WORDS)
                        \o WordHighlights(content, "Topic:", TOPIC_WORDS)
        unique_highlights == Take(Dedup(highlights), 5)
        meaningful == SelectSeq(Sentences(content, 1), LAMBDA s : TextLen(s) > 20)
    IN  IF content = <<>> THEN <<>>
        ELSE IF highlights # <<>>
        THEN Flatten([i \in 1..Len(unique_highlights) |->
                         <<Word(unique_highlights[i].label)>> \o unique_highlights[i].words])
        ELSE IF meaningful # <<>> THEN Flatten(Take(meaningful, 3))
        ELSE CutAt(content, 150)

\* _create_email_summary: per e-mail the highlights of its body (the snippet
\* of the model's messages is empty)
create_email_summary(email_contents) ==
    Flatten([i \in 1..Len(email_contents) |->
                extract_highlights_from_content(email_contents[i].body)])

\* _gmail_summarize_and_send: what it returns and what it mails
SummaryResult(success, emails_processed, summary, sent) ==
    [success |-> success, emails_processed |-> emails_processed,
     summary |-> summary, sent |-> sent]

gmail_summarize_and_send(mailbox, max_emails, down) ==
    LET messages == Take(mailbox, max_emails)
        email_contents == SelectSeq(Take(messages, max_emails),
                                    LAMBDA m : <<"get_message_content", m.id>> \notin down)
        summary == create_email_summary(email_contents)
    IN  IF <<"get_messages", "">> \in down \/ messages = <<>>
        THEN SummaryResult(FALSE, 0, <<>>, <<>>)
        ELSE IF <<"send_message", "">> \in down
        THEN SummaryResult(FALSE, 0, <<>>, <<>>)
        ELSE SummaryResult(TRUE, Len(email_contents), summary, summary)

GmailSummarizeAndSend ==
    /\ op = "init"
    /\ input.entry = "gmail_summarize_and_send"
    /\ LET r == gmail_summarize_and_send(input.mailbox, input.max_emails, input.down)
       IN  /\ op' = "gmail_summarize_and_send"
           /\ events' = <<>>
           /\ result' = r
    /\ UNCHANGED input

(***************************************************************************)
(* Specification of the summary mailer                                     *)
(***************************************************************************)
\* most e-mails summarised in one request
MaxEmails == 2
\* longest message body, in words
MaxWords == 3

\* the password and API-key values of the model's message bodies
SecretWords == {"hunter2", "api_key=sk123secret"}

SummaryVocabulary ==
    {Word("Please"), Word("today"), Word("meeting"), Word("hello"), Period,
     Word("password:"), Word("hunter2"), Word("api_key=sk123secret")}

SecondBodies == {<<>>, <<Word("Please"), Word("password:"), Word("hunter2")>>}

SummaryFailures ==
    {{}, {<<"get_messages", "">>}, {<<"get_message_content", "m1">>},
     {<<"send_message", "">>}}

SummaryInput(mailbox, max_emails, down) ==
    [entry |-> "gmail_summarize_and_send", mailbox |-> mailbox,
     max_emails |-> max_emails, down |-> down]

InitSummary ==
    /\ op = "init"
    /\ events = <<>>
    /\ result = <<>>
    /\ \E b1 \in SeqsUpTo(SummaryVocabulary, MaxWords), b2 \in SecondBodies,
          max_emails \in 1..MaxEmails, down \in SummaryFailures :
          input = SummaryInput(<<Message("m1", b1), Message("m2", b2)>>, max_emails, down)

NextSummary == GmailSummarizeAndSend

SpecSummary == InitSummary /\ [][NextSummary]_vars

\* the credential values a body holds: the word after "password:", and an
\* "api_key=..." word
CredentialValues(body) ==
    {body[k].w : k \in {i \in 1..Len(body) :
        \/ body[i].w = "api_key=sk123secret"
        \/ body[i].w = "hunter2" /\ i > 1 /\ body[i - 1].w = "password:"}}

\* C2: no password or API-key value of an e-mail body appears in the summary
\* that gmail.summarize_and_send builds and mails; the text was sanitized
\* first.
C2_NoSecretInMailedSummary ==
    op = "gmail_summarize_and_send" =>
        \A m \in 1..Len(input.mailbox) :
            \A i \in 1..Len(result.sent) :
                result.sent[i].w \notin CredentialValues(input.mailbox[m].body)

(***************************************************************************)
(* Claim C11: the event name of a create-event utterance                   *)
(***************************************************************************)
\* the positions of the word "called" in the utterance as the user wrote it
CalledAt == {i \in 1..Len(input.utterance) : input.utterance[i].w = "called"}

\* the name the user wrote: everything after the last "called"
WrittenName ==
    SubSeq(input.utterance, (CHOOSE i \in CalledAt : \A j \in CalledAt : j <= i) + 1,
           Len(input.utterance))

\* C11: for a create-event utterance that names the event with
\* "called <name>", the summary of the calendar.create_event invocation is
\* <name> exactly as the user wrote it, letter case included.
C11_SummaryAsWritten ==
    (op = "process_message" /\ CalledAt # {}) =>
        \A t \in CreateEventTools : result.tools[t].arg.summary = WrittenName

(***************************************************************************)
(* Claims C12 and C20: the calendar update chain of the benign bot         *)
(***************************************************************************)
Alice == Word("alice@example.com")

\* event titles: none, another address, or the add instruction itself
UpdateTitles ==
    {<<>>, <<Word("bob@example.org")>>, <<Word("add"), Word("email"), Alice>>}

\* event descriptions: add and removal instructions, with and without a time
UpdateDescriptions ==
    {<<>>,
     <<Word("add"), Word("email"), Alice>>,
     <<Word("invite"), Alice>>,
     <<Word("add"), Word("email"), Alice, Word("at"), ClockTok(<<"3">>, <<"3", "0">>, "pm")>>,
     <<Word("remove"), Word("email"), Alice>>,
     <<Word("uninvite"), Alice>>,
     <<Word("exclude"), Alice>>}

UpdateLocations == {<<>>, <<Word("room")>>}

AttendeeLists ==
    {<<>>, <<"alice@example.com">>, <<"bob@example.org", "alice@example.com">>}

\* the calendar holds one event; calendar.get_events answers or fails
UpdateEnvs ==
    {Env(down, {}, <<>>, <<>>,
         <<CalEvent(id, t, d, l, hasStart, att)>>, ImageItems) :
        down \in {{}, {<<"calendar", "get_events">>}}, id \in {"e1", ""},
        t \in UpdateTitles, d \in UpdateDescriptions, l \in UpdateLocations,
        hasStart \in BOOLEAN, att \in AttendeeLists}

\* "show calendar events" to the benign bot
InitUpdate ==
    /\ op = "init"
    /\ events = <<>>
    /\ result = <<>>
    /\ \E env \in UpdateEnvs :
          input = Request("process_message", "benign",
                          <<Word("show"), Word("calendar"), Word("events")>>,
                          RouterMaxUrls, TRUE, env)

NextUpdate == ProcessMessage

SpecUpdate == InitUpdate /\ [][NextUpdate]_vars

\* the event of the calendar
TheEvent == input.env.cal[1]

\* the chain ran: calendar.get_events answered
ChainRan ==
    /\ op = "process_message"
    /\ \E i \in 1..Len(events) :
          events[i].server = "calendar" /\ events[i].tool = "get_events"
              /\ events[i].outcome = "ok"

\* the calendar.update_event calls of the request
UpdateCalls ==
    {i \in 1..Len(events) :
        events[i].server = "calendar" /\ events[i].tool = "update_event"}

\* the addresses written in a text
AddressesIn(text) == {text[i].w : i \in 1..Len(text)} \cap EmailWords

\* C12: in the calendar update chain, for an event whose combined title,
\* description and location contain an add cue and an e-mail address but no
\* date or time text, the calendar.update_event call adds that address to the
\* attendee list and carries no start_time and no end_time.
C12_AddCueAddsAttendeeOnly ==
    (/\ ChainRan
     /\ TheEvent.id # ""
     /\ AnyIn(Lower(EventText(TheEvent)), ADD_CUES)
     /\ AddressesIn(EventText(TheEvent)) = {"alice@example.com"}
     /\ ~InSeq("alice@example.com", TheEvent.attendees)
     /\ ~HasDateOrTime(EventText(TheEvent)))
    => /\ UpdateCalls # {}
       /\ \A i \in UpdateCalls :
             /\ ~events[i].arg.times
             /\ events[i].arg.attendees
                   = Attendees(TRUE, Append(TheEvent.attendees, "alice@example.com"))

\* C20: in the calendar update chain, when the description carries a removal
\* cue together with an e-mail address, that address is never added to the
\* attendee list: it is removed if it is an attendee, and otherwise the
\* attendee list is left unchanged.
C20_RemovalCueNeverAdds ==
    (/\ ChainRan
     /\ TheEvent.id # ""
     /\ AnyIn(Lower(TheEvent.description), REMOVE_CUES)
     /\ AddressesIn(TheEvent.description) = {"alice@example.com"})
    => IF InSeq("alice@example.com", TheEvent.attendees)
       THEN /\ UpdateCalls # {}
            /\ \A i \in UpdateCalls :
                  events[i].arg.attendees
                     = Attendees(TRUE, RemoveFirst(TheEvent.attendees, "alice@example.com"))
       ELSE \A i \in UpdateCalls : ~events[i].arg.attendees.set

(***************************************************************************)
(* utils.py: sanitize_url on the characters of its argument                *)
(***************************************************************************)
\* character sequences the patterns of sanitize_url are made of
JAVA == <<"j", "a", "v", "a">>

SCRIPT == <<"s", "c", "r", "i", "p", "t">>

JAVASCRIPT == JAVA \o SCRIPT \o <<":">>

DATA == <<"d", "a", "t", "a", ":">>

VBSCRIPT == <<"v", "b">> \o SCRIPT \o <<":">>

HTTP == <<"h", "t", "t", "p", ":", "/", "/">>

HTTPS == <<"h", "t", "t", "p", "s", ":", "/", "/">>

SCRIPT_OPEN == <<"<">> \o SCRIPT

SCRIPT_CLOSE == <<"<", "/">> \o SCRIPT \o <<">">>

\* c.lower() for the upper-case characters of the model
LowerChar(c) == IF c = "J" THEN "j" ELSE IF c = "S" THEN "s" ELSE c

\* pat matches s at position i, letter case ignored (flags=re.IGNORECASE)
MatchAt(s, pat, i) ==
    /\ i + Len(pat) - 1 <= Len(s)
    /\ \A k \in 1..Len(pat) : LowerChar(s[i + k - 1]) = pat[k]

\* re.sub(pat, '', s) for a literal pattern: one pass from the left, the
\* scan goes on behind each removed match
RECURSIVE RemoveAll(_, _, _)
RemoveAll(s, pat, i) ==
    IF i > Len(s) THEN <<>>
    ELSE IF MatchAt(s, pat, i) THEN RemoveAll(s, pat, i + Len(pat))
    ELSE <<s[i]>> \o RemoveAll(s, pat, i + 1)

\* the least position from i on where pat matches, 0 when there is none
FirstAt(s, pat, i) ==
    IF \E k \in i..Len(s) : MatchAt(s, pat, k)
    THEN CHOOSE k \in i..Len(s) : MatchAt(s, pat, k) /\ \A j \in i..(k - 1) : ~MatchAt(s, pat, j)
    ELSE 0

\* where a match of <script[^>]*>.*?</script> that starts at i ends, 0 when
\* none starts there: the first ">" behind "<script", then the first
\* "</script>" behind it
ScriptTagEnd(s, i) ==
    IF ~MatchAt(s, SCRIPT_OPEN, i) THEN 0
    ELSE IF FirstAt(s, <<">">>, i + Len(SCRIPT_OPEN)) = 0 THEN 0
    ELSE IF FirstAt(s, SCRIPT_CLOSE, FirstAt(s, <<">">>, i + Len(SCRIPT_OPEN)) + 1) = 0 THEN 0
    ELSE FirstAt(s, SCRIPT_CLOSE, FirstAt(s, <<">">>, i + Len(SCRIPT_OPEN)) + 1)
            + Len(SCRIPT_CLOSE) - 1

\* re.sub(r'<script[^>]*>.*?</script>', '', url, flags=IGNORECASE | DOTALL)
RECURSIVE RemoveScriptTags(_, _)
RemoveScriptTags(s, i) ==
    IF i > Len(s) THEN <<>>
    ELSE IF ScriptTagEnd(s, i) # 0 THEN RemoveScriptTags(s, ScriptTagEnd(s, i) + 1)
    ELSE <<s[i]>> \o RemoveScriptTags(s, i + 1)

\* url.startswith(('http://', 'https://')), letter case respected
StartsWithHttp(s) ==
    \/ (Len(s) >= Len(HTTP) /\ SubSeq(s, 1, Len(HTTP)) = HTTP)
    \/ (Len(s) >= Len(HTTPS) /\ SubSeq(s, 1, Len(HTTPS)) = HTTPS)

\* url.strip()
RECURSIVE Strip(_)
Strip(s) ==
    IF s = <<>> THEN s
    ELSE IF Head(s) = " " THEN Strip(Tail(s))
    ELSE IF s[Len(s)] = " " THEN Strip(SubSeq(s, 1, Len(s) - 1))
    ELSE s

\* the https:// prefix for what does not start with a scheme, then strip()
EnsureScheme(s) == Strip(IF StartsWithHttp(s) THEN s ELSE HTTPS \o s)

\* utils.sanitize_url on a string given by its characters
sanitize_url_string(s) ==
    IF s = <<>> THEN <<>>
    ELSE EnsureScheme(RemoveAll(RemoveAll(RemoveAll(RemoveScriptTags(s, 1),
                                                    JAVASCRIPT, 1), DATA, 1), VBSCRIPT, 1))

(***************************************************************************)
(* Specification of the functions of utils.py (claims C13, C14, C15)       *)
(***************************************************************************)
MaxText == 3

MaxPieces == 3

\* URLs over blocked, allow-listed, Wikipedia and other hosts, with and
\* without user-info, port, path and file extension
UtilUrls ==
    {Url("https", ui, host, port, path, ext) :
        ui \in {"", "user"},
        host \in {<<"malware", "com">>, <<"phishing", "com">>, <<"example", "org">>,
                  <<"en", "wikipedia", "org">>, <<"github", "com">>},
        port \in {"", "8080"},
        path \in {<<>>, <<"x">>},
        ext \in {"", "exe"}}

\* the tokens of the texts handed to extract_urls_from_text
UtilToks == {UrlTok(GoodUrl), UrlTok(WikiUrl), UrlTok(BlockedUrl), Word("see")}

\* the pieces the arguments of sanitize_url are put together from
UrlPieces ==
    {JAVA, SCRIPT \o <<":">>, JAVASCRIPT, <<"J", "a", "v", "a">> \o SCRIPT \o <<":">>,
     <<"d", "a">>, <<"t", "a", ":">>, DATA, VBSCRIPT,
     SCRIPT_OPEN \o <<">">>, SCRIPT_CLOSE, <<" ">>, HTTPS, <<"x">>}

UtilInput(entry, url, text, string) ==
    [entry |-> entry, url |-> url, text |-> text, string |-> string]

InitUtils ==
    /\ op = "init"
    /\ events = <<>>
    /\ result = <<>>
    /\ \/ \E u \in UtilUrls : input = UtilInput("is_safe_url", u, <<>>, <<>>)
       \/ \E t \in SeqsUpTo(UtilToks, MaxText) :
             input = UtilInput("extract_urls_from_text", NoUrl, t, <<>>)
       \/ \E ps \in SeqsUpTo(UrlPieces, MaxPieces) :
             input = UtilInput("sanitize_url", NoUrl, <<>>, Flatten(ps))

\* one call of utils.is_safe_url
IsSafeUrl ==
    /\ op = "init"
    /\ input.entry = "is_safe_url"
    /\ op' = "is_safe_url"
    /\ result' = is_safe_url(input.url)
    /\ UNCHANGED <<input, events>>

\* one call of utils.extract_urls_from_text
ExtractUrlsFromText ==
    /\ op = "init"
    /\ input.entry = "extract_urls_from_text"
    /\ op' = "extract_urls_from_text"
    /\ result' = extract_urls_from_text(input.text)
    /\ events' = CheckEvents(input.text)
    /\ UNCHANGED input

\* one call of utils.sanitize_url
SanitizeUrl ==
    /\ op = "init"
    /\ input.entry = "sanitize_url"
    /\ op' = "sanitize_url"
    /\ result' = sanitize_url_string(input.string)
    /\ UNCHANGED <<input, events>>

NextUtils == IsSafeUrl \/ ExtractUrlsFromText \/ SanitizeUrl

SpecUtils == InitUtils /\ [][NextUtils]_vars

\* C13: for every input text, the list extract_urls_from_text returns
\* contains no URL twice, also when the same URL occurs several times in the
\* text.
C13_NoUrlTwice ==
    op = "extract_urls_from_text" =>
        \A i, j \in 1..Len(result) : i # j => result[i] # result[j]

\* C14: is_safe_url returns false for every URL whose host is a domain of
\* the blocklist, whatever port, user-info, path or query the URL carries; no
\* allow-list or Wikipedia rule overrides the blocklist.
C14_BlockedHostNeverSafe ==
    (op = "is_safe_url" /\ input.url.host \in BLOCKED_DOMAINS) => result = FALSE

\* C15: sanitize_url is idempotent: sanitize_url(sanitize_url(u)) equals
\* sanitize_url(u) for every string u, also when removing one occurrence of
\* "javascript:", "data:", "vbscript:" or a script tag exposes another one,
\* and for strings with leading whitespace.
C15_SanitizeIdempotent ==
    op = "sanitize_url" => sanitize_url_string(result) = result

(***************************************************************************)
(* api_server.py (benign): sanitize_email_body (claim C16)                 *)
(***************************************************************************)
\* a body is a sequence of lexemes: words, separators, blanks, HTML tags
KeyValue == "AB12CD34EF56GH78IJ"

Blank == " "

HtmlTags == {"<b>"}

PASSWORD_KEYS == {"password"}

API_KEYS == {"api_key", "api-key", "apikey"}

\* lexeme.lower(), for flags=re.I
LowerLexeme(x) ==
    IF x = "Password" THEN "password" ELSE IF x = "API-Key" THEN "api-key" ELSE x

\* re.sub(r"<[^>]+>", " ", body)
RemoveTags(body) == [i \in 1..Len(body) |-> IF body[i] \in HtmlTags THEN Blank ELSE body[i]]

\* the first position from i on that holds no blank (Len + 1 when none)
RECURSIVE SkipBlank(_, _)
SkipBlank(s, i) == IF i <= Len(s) /\ s[i] = Blank THEN SkipBlank(s, i + 1) ELSE i

\* the first position from i on that holds a blank (Len + 1 when none)
RECURSIVE RunEnd(_, _)
RunEnd(s, i) == IF i <= Len(s) /\ s[i] # Blank THEN RunEnd(s, i + 1) ELSE i

\* where a match of key\s*[:=]\s*\S+ that starts at i ends, 0 when none
\* starts there; \S+ runs up to the next blank
CredentialEnd(s, keys, i) ==
    IF LowerLexeme(s[i]) \notin keys THEN 0
    ELSE IF SkipBlank(s, i + 1) > Len(s) THEN 0
    ELSE IF s[SkipBlank(s, i + 1)] \notin {":", "="} THEN 0
    ELSE IF SkipBlank(s, SkipBlank(s, i + 1) + 1) > Len(s) THEN 0
    ELSE RunEnd(s, SkipBlank(s, SkipBlank(s, i + 1) + 1)) - 1

\* re.sub(r"(key\s*[:=]\s*\S+)", label, clean, flags=re.I)
RECURSIVE Redact(_, _, _, _)
Redact(s, keys, label, i) ==
    IF i > Len(s) THEN <<>>
    ELSE IF CredentialEnd(s, keys, i) # 0
    THEN <<label>> \o Redact(s, keys, label, CredentialEnd(s, keys, i) + 1)
    ELSE <<s[i]>> \o Redact(s, keys, label, i + 1)

\* re.sub(r"\s+", " ", clean).strip(): one blank per run, none at the ends
RECURSIVE CollapseBlanks(_)
CollapseBlanks(s) ==
    IF s = <<>> THEN <<>>
    ELSE IF Head(s) = Blank
    THEN (IF SkipBlank(s, 1) > Len(s) THEN <<>>
          ELSE <<Blank>> \o CollapseBlanks(SubSeq(s, SkipBlank(s, 1), Len(s))))
    ELSE <<Head(s)>> \o CollapseBlanks(Tail(s))

\* the names the import statements of api_server.py bind; html is not among
\* them, and the module defines no such name
ImportedNames ==
    {"re", "asyncio", "json", "Dict", "Any", "List", "Optional", "urlparse", "urljoin",
     "httpx", "FastAPI", "HTTPException", "Request", "CORSMiddleware", "BaseModel",
     "Field", "uvicorn", "MCPClient", "ImageProcessingResult",
     "extract_images_from_text", "process_image_with_google_search",
     "process_gmail_with_image_and_url_chaining"}

\* what a call leaves: the string it returned, or the exception it raised
Returned(value) == [raised |-> "", value |-> value]

Failed(exception) == [raised |-> exception, value |-> <<>>]

\* the steps behind html.unescape (the model's bodies hold no HTML entity and
\* stay below max_chars, the 20-character token pattern matches none of the
\* lexemes)
RedactAndCollapse(clean) ==
    LET c == CollapseBlanks(Redact(Redact(clean, PASSWORD_KEYS, "[REDACTED PASSWORD]", 1),
                                   API_KEYS, "[REDACTED API KEY]", 1))
    IN  IF c # <<>> /\ Head(c) = Blank THEN Tail(c) ELSE c

\* sanitize_email_body: html.unescape(clean) is evaluated for every
\* non-empty body, and the name html raises NameError
sanitize_email_body(body) ==
    IF body = <<>> THEN Returned(<<>>)
    ELSE IF "html" \notin ImportedNames THEN Failed("NameError")
    ELSE Returned(RedactAndCollapse(RemoveTags(body)))

MaxLexemes == 4

Lexemes ==
    {"my", "password", "Password", "api_key", "API-Key", "apikey", ":", "=", Blank,
     KeyValue, "<b>"}

InitSanitize ==
    /\ op = "init"
    /\ events = <<>>
    /\ result = <<>>
    /\ \E body \in SeqsUpTo(Lexemes, MaxLexemes) :
          input = [entry |-> "sanitize_email_body", body |-> body]

\* one call of sanitize_email_body
SanitizeEmailBody ==
    /\ op = "init"
    /\ op' = "sanitize_email_body"
    /\ result' = sanitize_email_body(input.body)
    /\ UNCHANGED <<input, events>>

NextSanitize == SanitizeEmailBody

SpecSanitize == InitSanitize /\ [][NextSanitize]_vars

\* the body holds a password or API-key name followed by ":" or "=" and the
\* value
HoldsCredential(body) ==
    \E i \in 1..Len(body) :
        /\ LowerLexeme(body[i]) \in PASSWORD_KEYS \cup API_KEYS
        /\ CredentialEnd(body, PASSWORD_KEYS \cup API_KEYS, i) # 0
        /\ \E k \in (i + 1)..CredentialEnd(body, PASSWORD_KEYS \cup API_KEYS, i) :
              body[k] = KeyValue

\* C16: for every non-empty text that contains "password" or "api_key" /
\* "api-key" / "apikey" followed by ":" or "=" and a value, the sanitizer
\* returns a string (it does not fail) that does not contain that value.
C16_CredentialRedacted ==
    (op = "sanitize_email_body" /\ HoldsCredential(input.body)) =>
        /\ result.raised = ""
        /\ ~InSeq(KeyValue, result.value)

(***************************************************************************)
(* main.py (benign): the command line, process_single_message (claim C17)  *)
(***************************************************************************)
\* ["image", "images", "photo", "photos", "qr", "qr code", "picture", "pictures"]
IMAGE_REQUEST_KW ==
    {<<"image">>, <<"images">>, <<"photo">>, <<"photos">>, <<"qr">>, <<"qr", "code">>,
     <<"picture">>, <<"pictures">>}

\* process_single_message: both branches of the image-request test make the
\* same call; max_images and process_images are printed and not passed on
process_single_message(message, max_urls, max_images, enable_tool_chaining, process_images, env) ==
    IF AnyIn(Lower(message), IMAGE_REQUEST_KW)
    THEN process_message_with_tool_chaining("benign", message, max_urls,
                                            enable_tool_chaining, env)
    ELSE process_message_with_tool_chaining("benign", message, max_urls,
                                            enable_tool_chaining, env)

\* message bodies with up to three images
ImageBodies ==
    {<<>>, <<UrlTok(PhotoUrl)>>, <<UrlTok(PhotoUrl), UrlTok(ImgDirUrl)>>,
     <<UrlTok(GoodUrl), UrlTok(PhotoUrl), UrlTok(ImgDirUrl)>>,
     <<UrlTok(ImageUrl), UrlTok(PhotoUrl), UrlTok(ImgDirUrl)>>}

\* "check email", or a message that carries the links itself
CliMessages ==
    {<<Word("check"), Word("email")>>, <<Word("check"), Word("email"), Word("images")>>}
    \cup (ImageBodies \ {<<>>})

\* python main.py --message ... --max-urls ... --max-images ...
InitCli ==
    /\ op = "init"
    /\ events = <<>>
    /\ result = <<>>
    /\ \E message \in CliMessages, max_urls \in 0..(MaxCap + 1), max_images \in 0..MaxCap,
          enable \in BOOLEAN, process_images \in BOOLEAN, body \in ImageBodies,
          down \in {{}, {<<"google", "search">>}} :
          input = [entry |-> "process_single_message", message |-> message,
                   max_urls |-> max_urls, max_images |-> max_images,
                   enable |-> enable, process_images |-> process_images,
                   env |-> Env(down, {}, <<Message("m1", body)>>, <<>>, <<>>, ImageItems)]

ProcessSingleMessage ==
    /\ op = "init"
    /\ op' = "process_single_message"
    /\ result' = process_single_message(input.message, input.max_urls, input.max_images,
                                        input.enable, input.process_images, input.env)
    /\ events' = result'.events
    /\ UNCHANGED input

NextCli == ProcessSingleMessage

SpecCli == InitCli /\ [][NextCli]_vars

\* the images handed to the image search
ProcessedImages ==
    {events[i].url : i \in {k \in 1..Len(events) :
        events[k].server = "google" /\ events[k].tool = "search" /\ events[k].url # NoUrl}}

\* C17: the number of image URLs processed in one request never exceeds the
\* max_images value the caller supplied through --max-images, whatever the
\* value of max_urls.
C17_ImagesWithinMaxImages ==
    op = "process_single_message" => Cardinality(ProcessedImages) <= input.max_images

(***************************************************************************)
(* Claim C18: appended invocations are executed                            *)
(***************************************************************************)
\* the invocations the detections appended to tools_to_use for the utterance
AppendedInvocations == Route(input.variant, input.utterance).appended

\* the invocation was executed: a call with its server, URL and parameters
Executed(t) ==
    \E i \in 1..Len(events) :
        /\ events[i].kind \in {"call_tool", "direct"}
        /\ events[i].server = t.server
        /\ events[i].url = t.url
        /\ events[i].arg = t.arg

\* C18: every invocation the router has appended to its invocation list for
\* an utterance is executed before process_message returns, whatever keyword
\* checks fire later; the Gmail-read detection drops no earlier invocation.
C18_AppendedAreExecuted ==
    (op = "process_message" /\ ~result.raised) =>
        \A k \in 1..Len(AppendedInvocations) : Executed(AppendedInvocations[k])

(***************************************************************************)
(* Claim C19: the Gmail read chain fetches the content of every message    *)
(***************************************************************************)
\* gmail.get_messages answered with the message list
ListAnswered ==
    \E i \in 1..Len(events) :
        /\ events[i].tool = "get_messages"
        /\ events[i].outcome = "ok"

\* the content fetches of message id, in the order they were attempted
ContentFetches(id) ==
    SelectSeq(events, LAMBDA e : e.tool = "get_message_content" /\ e.arg = id)

\* the list-level text of message m went through URL extraction: each of its
\* links was put to is_safe_url
SnippetExtracted(m) ==
    \A j \in 1..Len(CheckEvents(m.body)) :
        \E i \in 1..Len(events) : events[i] = CheckEvents(m.body)[j]

\* C19: in the Gmail read chain a content fetch is attempted for every
\* message of the fetched list; when the fetch of a message fails, its
\* list-level text is used for URL extraction, and the messages after it are
\* still fetched and processed.
C19_EveryMessageFetched ==
    (op = "process_message_with_tool_chaining" /\ ListAnswered) =>
        \A k \in 1..Len(input.env.mailbox) :
            /\ ContentFetches(input.env.mailbox[k].id) # <<>>
            /\ Raised(ContentFetches(input.env.mailbox[k].id)[1]) =>
                  SnippetExtracted(input.env.mailbox[k])

(***************************************************************************)
(* mcp_client.py: MCPClient, its status registry and its process registry  *)
(* (claims C24, C25, C26, C30)                                             *)
(***************************************************************************)
\* the keys of self.servers in the order connect_to_servers writes them
Providers ==
    <<"gmail", "maps", "slack", "calendar", "google", "drive", "wikipedia", "web_access">>

\* the providers connect_to_servers runs a connect step for, in call order
ConnectOrder == <<"gmail", "maps", "slack", "calendar", "google", "drive">>

\* what subprocess.Popen followed by the two-second poll can give
PopenOutcomes == {"raise", "exited", "alive"}

\* MCPClient.__init__: the state of a client is its two dictionaries;
\* processes is kept as the list of its keys in insertion order, spawned
\* lists the subprocesses Popen has started
Client(servers, processes, spawned) ==
    [servers |-> servers, processes |-> processes, spawned |-> spawned]

NewClient == Client(<<>>, <<>>, <<>>)

\* the connect steps of gmail, maps, slack, calendar and google: without npx
\* the step returns with api_only, with npx the forced return below the npx
\* test does the same; the Popen that follows that return is never reached
ForcedApiOnly(c, server, npx) ==
    IF ~npx
    THEN Client([c.servers EXCEPT ![server] = "api_only"], c.processes, c.spawned)
    ELSE Client([c.servers EXCEPT ![server] = "api_only"], c.processes, c.spawned)

\* _connect_drive_mcp_server has no forced return: with npx it starts the
\* subprocess and registers it when it is still running after two seconds
_connect_drive_mcp_server(c, npx, popen) ==
    IF ~npx
    THEN Client([c.servers EXCEPT !["drive"] = "api_only"], c.processes, c.spawned)
    ELSE IF popen = "raise"
    THEN Client([c.servers EXCEPT !["drive"] = "api_only"], c.processes, c.spawned)
    ELSE IF popen = "alive"
    THEN Client([c.servers EXCEPT !["drive"] = "connected"],
                Append(c.processes, "drive"), Append(c.spawned, "drive"))
    ELSE Client([c.servers EXCEPT !["drive"] = "api_only"],
                c.processes, Append(c.spawned, "drive"))

\* the except branch of connect_to_servers
UnknownToApiOnly(c) ==
    Client([s \in DOMAIN c.servers |->
                IF c.servers[s] = "unknown" THEN "api_only" ELSE c.servers[s]],
           c.processes, c.spawned)

\* connect_to_servers: every status starts as unknown, then the six connect
\* steps run; each step catches its own exceptions, so the except branch is
\* taken only for an error raised by the body itself (error)
connect_to_servers(c, npx, popen, error) ==
    LET unknown == Client([s \in Range(Providers) |-> "unknown"], c.processes, c.spawned)
        steps == _connect_drive_mcp_server(
                    ForcedApiOnly(ForcedApiOnly(ForcedApiOnly(ForcedApiOnly(ForcedApiOnly(
                        unknown, "gmail", npx), "maps", npx), "slack", npx),
                        "calendar", npx), "google", npx),
                    npx, popen)
    IN  IF error THEN UnknownToApiOnly(steps) ELSE steps

\* IntelligentChatBot.connect: connect_to_servers, then the two statuses the
\* bot sets itself
AdditionalServers(c) ==
    Client([s \in DOMAIN c.servers \cup {"wikipedia", "web_access"} |->
                IF s \in {"wikipedia", "web_access"} THEN "api_only" ELSE c.servers[s]],
           c.processes, c.spawned)

connect(c, npx, popen, error) == AdditionalServers(connect_to_servers(c, npx, popen, error))

\* a signal sent to the subprocess registered under server
Signal(kind, server) == Ev(kind, server, "", NoUrl, "", <<>>)

\* how a registered subprocess behaves during shutdown: it has exited before
\* disconnect is called, it exits within the grace period once terminated, it
\* ignores terminate, or it exits on its own while disconnect awaits another
\* subprocess
Behaviours == {"exited", "obeys", "hangs", "early"}

\* the loop with the grace period left out: kill follows for every subprocess
RECURSIVE DisconnectLoopNoGrace(_, _, _, _)
DisconnectLoopNoGrace(procs, behaviour, awaited, acc) ==
    IF procs = <<>>
    THEN acc
    ELSE IF behaviour[Head(procs)] = "exited"
            \/ (behaviour[Head(procs)] = "early" /\ awaited)
    THEN DisconnectLoopNoGrace(Tail(procs), behaviour, awaited, acc)
    ELSE DisconnectLoopNoGrace(Tail(procs), behaviour, TRUE,
                               acc \o <<Signal("terminate", Head(procs)),
                                        Signal("kill", Head(procs))>>)

\* the loop of disconnect over self.processes.items(): insertion order;
\* awaited tells whether the loop has been suspended in wait_for before
RECURSIVE DisconnectLoop(_, _, _, _)
DisconnectLoop(procs, behaviour, awaited, acc) ==
    IF procs = <<>>
    THEN acc
    ELSE IF behaviour[Head(procs)] = "exited"
            \/ (behaviour[Head(procs)] = "early" /\ awaited)
    THEN DisconnectLoop(Tail(procs), behaviour, awaited, acc)
    ELSE DisconnectLoop(Tail(procs), behaviour, TRUE,
                        acc \o <<Signal("terminate", Head(procs))>>
                            \o (IF behaviour[Head(procs)] = "hangs"
                                THEN <<Signal("kill", Head(procs))>>
                                ELSE <<>>))

\* disconnect: the loop, then self.processes.clear()
disconnect(c) == Client(c.servers, <<>>, c.spawned)

\* the calls made on the client between startup and shutdown
MaxCalls == 1
ClientCalls ==
    {<<"gmail", "get_messages">>, <<"gmail", "get_message_content">>,
     <<"drive", "search">>, <<"wikipedia", "get_page">>}

InitClient ==
    /\ op = "init"
    /\ events = <<>>
    /\ result = NewClient
    /\ \E entry \in {"startup_event", "connect"}, npx \in BOOLEAN,
          popen \in PopenOutcomes, error \in BOOLEAN, b \in Behaviours :
          input = [entry |-> entry, npx |-> npx, popen |-> popen, error |-> error,
                   behaviour |-> [s \in {"drive"} |-> b]]

\* api_server.startup_event: connect_to_servers alone
StartupEvent ==
    /\ op = "init"
    /\ input.entry = "startup_event"
    /\ op' = "connected"
    /\ result' = connect_to_servers(result, input.npx, input.popen, input.error)
    /\ UNCHANGED <<input, events>>

\* IntelligentChatBot.connect
Connect ==
    /\ op = "init"
    /\ input.entry = "connect"
    /\ op' = "connected"
    /\ result' = connect(result, input.npx, input.popen, input.error)
    /\ UNCHANGED <<input, events>>

\* MCPClient.call_tool reads the status of the server and writes nothing
CallTool ==
    /\ op = "connected"
    /\ Len(events) < MaxCalls
    /\ \E call \in ClientCalls :
          events' = Append(events, call_tool(call[1], call[2], NoUrl, <<>>, FALSE))
    /\ UNCHANGED <<op, input, result>>

\* MCPClient.disconnect (shutdown_event, IntelligentChatBot.disconnect)
Disconnect ==
    /\ op = "connected"
    /\ op' = "disconnected"
    /\ events' = DisconnectLoop(result.processes, input.behaviour, FALSE, events)
    /\ result' = disconnect(result)
    /\ UNCHANGED input

NextClient ==
    \/ StartupEvent
    \/ Connect
    \/ CallTool
    \/ Disconnect

SpecClient == InitClient /\ [][NextClient]_vars

\* disconnect on a registry as the assignments self.processes[server] = process
\* of the connect steps fill it, in the order of the connect steps
MaxProcs == 2

RegistryOf(set) == SelectSeq(ConnectOrder, LAMBDA s : s \in set)

ConnectedClient(set) ==
    Client([s \in Range(Providers) |->
                IF s \in set THEN "connected"
                ELSE IF s \in {"wikipedia", "web_access"} THEN "unknown" ELSE "api_only"],
           RegistryOf(set), RegistryOf(set))

InitDisconnect ==
    /\ op = "connected"
    /\ events = <<>>
    /\ \E set \in SUBSET Range(ConnectOrder) :
          /\ Cardinality(set) <= MaxProcs
          /\ result = ConnectedClient(set)
          /\ \E behaviour \in [set -> Behaviours] :
                input = [entry |-> "disconnect", behaviour |-> behaviour]

NextDisconnect == Disconnect

SpecDisconnect == InitDisconnect /\ [][NextDisconnect]_vars

(***************************************************************************)
(* Claims C24, C25: the shutdown of the subprocesses                       *)
(***************************************************************************)
\* the registry disconnect was called with, in registration order
StartRegistry == RegistryOf(DOMAIN input.behaviour)

\* the positions in the log at which server's subprocess was sent kind
SentAt(kind, server) ==
    {i \in 1..Len(events) : events[i].kind = kind /\ events[i].server = server}

KillOnlyAfterTerminate ==
    \A s \in DOMAIN input.behaviour :
        \A k \in SentAt("kill", s) :
            /\ input.behaviour[s] = "hangs"
            /\ \E t \in SentAt("terminate", s) : t < k

\* a subprocess that had exited before disconnect was called gets no signal
ExitedGetNoSignal ==
    \A s \in DOMAIN input.behaviour :
        input.behaviour[s] = "exited" =>
            SentAt("terminate", s) = {} /\ SentAt("kill", s) = {}

\* the loop was suspended in wait_for before it reached entry k
AwaitedBefore(k) ==
    \E i \in 1..(k - 1) : SentAt("terminate", StartRegistry[i]) # {}

C26_NoSubprocessNoConnected ==
    op = "connected" =>
        /\ result.spawned = <<>>
        /\ result.processes = <<>>
        /\ \A i \in 1..Len(ConnectOrder) : result.servers[ConnectOrder[i]] = "api_only"

\* C30: after connect_to_servers has returned every provider of the status
\* registry is connected or api_only, none is unknown, and call_tool and
\* disconnect leave the statuses as connect_to_servers set them.
C30_NoStatusLeftUnknown ==
    (op \in {"connected", "disconnected"} /\ input.entry = "startup_event") =>
        /\ \A s \in Range(Providers) : result.servers[s] \in {"connected", "api_only"}
        /\ result.servers =
              connect_to_servers(NewClient, input.npx, input.popen, input.error).servers

(***************************************************************************)
(* The two entry points calling each other (claim C27)                     *)
(***************************************************************************)
\* a call of one of the two methods: a frame of the call stack
Frame(method) == Ev("enter", "", method, NoUrl, "", <<>>)

\* the frames the model follows before it gives up
MaxFrames == 4

\* the final else branch taken for every utterance
ChainingDelegatesAlways(u) == TRUE

\* process_message_with_tool_chaining reaches its final else branch,
\* response = await self.process_message(user_input)
ChainingDelegates(u) == ~AnyIn(Lower(u), GMAIL_KW) /\ ~HasHttp(u)

\* what the two methods find in the utterance; both read the same
\* input_lower, so the findings are the same in every frame of one call
Findings(v, u) ==
    [router |-> Route(v, u).exit, chaining |-> ChainingDelegates(u)]

\* "create event at <clock>": the requests whose clock time the router may
\* refuse with an exception
ClockedRequests == {<<Word("create"), Word("event")>> \o c : c \in ClockParts}

InitDelegate ==
    /\ op = "init"
    /\ events = <<>>
    /\ \E entry \in {"process_message", "process_message_with_tool_chaining"},
          v \in Variants, u \in Utterances \cup ClockedRequests,
          env \in {e \in RouterEnvs : e.down = {}} :
          /\ input = Request(entry, v, u, RouterMaxUrls, TRUE, env)
          /\ result = Findings(v, u)

\* the caller (chat loop or command line) calls the entry point
Enter ==
    /\ op = "init"
    /\ op' = input.entry
    /\ events' = <<Frame(input.entry)>>
    /\ UNCHANGED <<input, result>>

\* process_message reaches one of its two
\* return await self.process_message_with_tool_chaining(...) statements
DelegateToChaining ==
    /\ op = "process_message"
    /\ Len(events) < MaxFrames
    /\ result.router = "chain"
    /\ op' = "process_message_with_tool_chaining"
    /\ events' = Append(events, Frame("process_message_with_tool_chaining"))
    /\ UNCHANGED <<input, result>>

\* process_message_with_tool_chaining reaches its final else branch
DelegateToRouter ==
    /\ op = "process_message_with_tool_chaining"
    /\ Len(events) < MaxFrames
    /\ result.chaining
    /\ op' = "process_message"
    /\ events' = Append(events, Frame("process_message"))
    /\ UNCHANGED <<input, result>>

\* the calendar detection of process_message raises before any delegation
\* can be reached: the exception passes through every frame to the caller
Raise ==
    /\ op = "process_message"
    /\ result.router = "raise"
    /\ op' = "raised"
    /\ UNCHANGED <<input, events, result>>

\* the innermost call ends without a further delegation, and with it every
\* frame below it: the response reaches the caller
Return ==
    /\ \/ /\ op = "process_message"
          /\ result.router = "tools"
       \/ /\ op = "process_message_with_tool_chaining"
          /\ ~result.chaining
    /\ op' = "returned"
    /\ UNCHANGED <<input, events, result>>

NextDelegate ==
    \/ Enter
    \/ DelegateToChaining
    \/ DelegateToRouter
    \/ Raise
    \/ Return

SpecDelegate == InitDelegate /\ [][NextDelegate]_vars

\* the call is scheduled: a method that can take its next step takes it
SpecDelegateFair == SpecDelegate /\ WF_vars(NextDelegate)

\* the delegations made so far: every frame but the first
Delegations == IF events = <<>> THEN 0 ELSE Len(events) - 1

ShortCircuited ==
    /\ op = "process_message"
    /\ Route(input.variant, input.utterance).exit = "chain"

\* the response is "No tools were executed. Please try a different request."
NoToolsExecuted == result.lines = <<>>

\* C28: whenever process_message short-circuits a Gmail-read utterance into
\* the chaining method, that method issues a gmail.get_messages call and
\* never answers with "No tools were executed".
C28_ShortCircuitFetchesMessages ==
    ShortCircuited =>
        /\ \E i \in 1..Len(events) :
              events[i].server = "gmail" /\ events[i].tool = "get_messages"
        /\ ~NoToolsExecuted

(***************************************************************************)
(* api_server.py (mcp_code): the /api/chat endpoint (claim C29)            *)
(***************************************************************************)
\* the response of the except branch: success False, both lists empty
ErrorResponse(evs) == Outcome(FALSE, "error", <<>>, evs, <<>>, <<>>, <<>>)

\* the response after a chain x: its URL results become processed_urls and
\* one url_processing entry of tool_results each
EndpointChain(evs, lines, x) ==
    Outcome(FALSE, "endpoint", <<>>, evs \o x.events,
            lines \o [i \in 1..Len(x.urls) |->
                         Line(<<"url_processing", x.urls[i].content_type>>,
                              x.urls[i].is_safe)],
            x.urls, <<>>)

\* the Gmail branch once gmail.get_messages has answered with gm
EndpointGmailRead(gm, max_urls, enable, env) ==
    IF Raised(gm)
    THEN ErrorResponse(<<gm>>)
    ELSE IF enable /\ env.mailbox # <<>>
    THEN EndpointChain(<<gm>>, <<Line("gmail.get_messages", TRUE)>>,
                       process_gmail_with_url_chaining(Bodies(env.mailbox), max_urls, env))
    ELSE Outcome(FALSE, "endpoint", <<>>, <<gm>>,
                 <<Line("gmail.get_messages", TRUE)>>, <<>>, <<>>)

\* the branch that reads one message, mc the answer of the content fetch
EndpointGmailContent(ids, mc, known, max_urls, enable, env) ==
    IF ids = <<>>
    THEN Outcome(FALSE, "endpoint", <<>>, <<>>,
                 <<Line("gmail.get_message_content", FALSE)>>, <<>>, <<>>)
    ELSE IF Raised(mc)
    THEN ErrorResponse(<<mc>>)
    ELSE IF enable /\ known # <<>> /\ extract_urls_from_text(known[1].body) # <<>>
    THEN EndpointChain(<<mc>> \o CheckEvents(known[1].body),
                       <<Line("gmail.get_message_content", TRUE)>>,
                       process_gmail_with_url_chaining(<<known[1].body>>, max_urls, env))
    ELSE Outcome(FALSE, "endpoint", <<>>,
                 <<mc>> \o (IF enable /\ known # <<>>
                            THEN CheckEvents(known[1].body) ELSE <<>>),
                 <<Line("gmail.get_message_content", TRUE)>>, <<>>, <<>>)

\* the default branch, gs the answer of google.search
EndpointSearch(gs) ==
    IF Raised(gs)
    THEN ErrorResponse(<<gs>>)
    ELSE Outcome(FALSE, "endpoint", <<>>, <<gs>>, <<Line("google.search", TRUE)>>,
                 <<>>, <<>>)

\* chat_endpoint: the Gmail branches look at enable_tool_chaining, the branch
\* for a message with "http" in it does not
chat_endpoint(u, lo, ids, max_urls, enable, env) ==
    IF AnyIn(lo, GMAIL_KW)
    THEN IF Has(lo, <<"get_messages">>) \/ Has(lo, <<"check">>) \/ Has(lo, <<"read">>)
         THEN EndpointGmailRead(
                  call_tool("gmail", "get_messages", NoUrl, <<>>,
                            <<"gmail", "get_messages">> \in env.down),
                  max_urls, enable, env)
         ELSE IF Has(lo, <<"get_message_content">>) \/ Has(lo, <<"read", "message">>)
         THEN EndpointGmailContent(
                  ids,
                  call_tool("gmail", "get_message_content", NoUrl,
                            IF ids = <<>> THEN <<>> ELSE ids[1].w,
                            <<"gmail", "get_message_content">> \in env.down),
                  IF ids = <<>> THEN <<>>
                  ELSE SelectSeq(env.mailbox, LAMBDA m : m.id = ids[1].w),
                  max_urls, enable, env)
         ELSE Outcome(FALSE, "endpoint", <<>>, <<>>, <<>>, <<>>, <<>>)
    ELSE IF HasHttp(u)
    THEN IF extract_urls_from_text(u) # <<>>
         THEN EndpointChain(CheckEvents(u), <<>>,
                            process_gmail_with_url_chaining(<<u>>, max_urls, env))
         ELSE Outcome(FALSE, "endpoint", <<>>, CheckEvents(u), <<>>, <<>>, <<>>)
    ELSE EndpointSearch(call_tool("google", "search", NoUrl, u,
                                  <<"google", "search">> \in env.down))

\* the requests posted to /api/chat
InitEndpoint ==
    /\ op = "init"
    /\ events = <<>>
    /\ result = <<>>
    /\ \E u \in Utterances \ {<<>>}, max_urls \in {0, MaxCap}, enable \in BOOLEAN,
          env \in RouterEnvs :
          input = Request("chat_endpoint", "mcp_code", u, max_urls, enable, env)

ChatEndpoint ==
    /\ op = "init"
    /\ input.entry = "chat_endpoint"
    /\ op' = "chat_endpoint"
    /\ result' = chat_endpoint(input.utterance, Lower(input.utterance),
                               SelectSeq(input.utterance, LAMBDA t : t.w \in MessageIdWords),
                               input.max_urls, input.enable, input.env)
    /\ events' = result'.events
    /\ UNCHANGED input

NextEndpoint == ChatEndpoint

SpecEndpoint == InitEndpoint /\ [][NextEndpoint]_vars

\* C29: with enable_tool_chaining false the endpoint issues no secondary
\* wikipedia.get_page or web_access.get_content call and returns an empty
\* processed_urls list, whatever the message.
C29_ChainingOffNoSecondaryFetch ==
    (op = "chat_endpoint" /\ ~input.enable) =>
        /\ \A i \in 1..Len(events) :
              <<events[i].server, events[i].tool>>
                  \notin {<<"wikipedia", "get_page">>, <<"web_access", "get_content">>}
        /\ result.urls = <<>>

(***************************************************************************)
(* main.py (benign): extract_date_from_text (claim C23)                    *)
(***************************************************************************)
\* a text is a list of lexemes: a run of digits, one separator character,
\* or a word; chars holds the characters (the word, for a word)
Num(ds) == [kind |-> "num", chars |-> ds]
Sep(ch) == [kind |-> "sep", chars |-> <<ch>>]
Name(w) == [kind |-> "word", chars |-> <<w>>]

FULL_MONTHS ==
    <<"january", "february", "march", "april", "may", "june", "july", "august",
      "september", "october", "november", "december">>

SHORT_MONTHS ==
    <<"jan", "feb", "mar", "apr", "may", "jun", "jul", "aug", "sep", "oct", "nov", "dec">>

\* the month names as a writer capitalises them
WrittenFull ==
    <<"January", "February", "March", "April", "May", "June", "July", "August",
      "September", "October", "November", "December">>

WrittenShort ==
    <<"Jan", "Feb", "Mar", "Apr", "May", "Jun", "Jul", "Aug", "Sep", "Oct", "Nov", "Dec">>

RELATIVE_DATES == {"today", "tomorrow", "yesterday"}

\* w.lower() for the words of a date
LowerDateWord(w) ==
    IF \E k \in 1..12 : WrittenFull[k] = w
    THEN FULL_MONTHS[CHOOSE k \in 1..12 : WrittenFull[k] = w]
    ELSE IF \E k \in 1..12 : WrittenShort[k] = w
    THEN SHORT_MONTHS[CHOOSE k \in 1..12 : WrittenShort[k] = w]
    ELSE w

\* \d{lo,hi} between word boundaries
IsNumAt(text, i, lo, hi) ==
    i <= Len(text) /\ text[i].kind = "num" /\ Len(text[i].chars) \in lo..hi

IsSepAt(text, i, set) ==
    i <= Len(text) /\ text[i].kind = "sep" /\ text[i].chars[1] \in set

\* one of the alternatives of a word group, re.IGNORECASE
IsWordAt(text, i, names) ==
    i <= Len(text) /\ text[i].kind = "word"
        /\ LowerDateWord(text[i].chars[1]) \in names

\* the three groups of a match
Groups(text, i, j, k) == <<text[i].chars, text[j].chars, text[k].chars>>

\* Month DD, YYYY with the names given: the comma is optional
MonthFirstAt(text, i, names) ==
    IF IsWordAt(text, i, names) /\ IsSepAt(text, i + 1, {" "}) /\ IsNumAt(text, i + 2, 1, 2)
    THEN IF IsSepAt(text, i + 3, {","}) /\ IsSepAt(text, i + 4, {" "})
            /\ IsNumAt(text, i + 5, 4, 4)
         THEN Groups(text, i, i + 2, i + 5)
         ELSE IF IsSepAt(text, i + 3, {" "}) /\ IsNumAt(text, i + 4, 4, 4)
         THEN Groups(text, i, i + 2, i + 4)
         ELSE <<>>
    ELSE <<>>

\* date_patterns[p - 1] tried at lexeme i: the groups, <<>> for no match
PatternAt(text, p, i) ==
    CASE p = 1 ->
            IF IsNumAt(text, i, 4, 4) /\ IsSepAt(text, i + 1, {"-"})
               /\ IsNumAt(text, i + 2, 1, 2) /\ IsSepAt(text, i + 3, {"-"})
               /\ IsNumAt(text, i + 4, 1, 2)
            THEN Groups(text, i, i + 2, i + 4) ELSE <<>>
      [] p = 2 ->
            IF IsNumAt(text, i, 1, 2) /\ IsSepAt(text, i + 1, {"/", "-"})
               /\ IsNumAt(text, i + 2, 1, 2) /\ IsSepAt(text, i + 3, {"/", "-"})
               /\ IsNumAt(text, i + 4, 2, 4)
            THEN Groups(text, i, i + 2, i + 4) ELSE <<>>
      [] p = 3 ->
            IF IsNumAt(text, i, 4, 4) /\ IsSepAt(text, i + 1, {"/", "-"})
               /\ IsNumAt(text, i + 2, 1, 2) /\ IsSepAt(text, i + 3, {"/", "-"})
               /\ IsNumAt(text, i + 4, 1, 2)
            THEN Groups(text, i, i + 2, i + 4) ELSE <<>>
      [] p = 4 -> MonthFirstAt(text, i, Range(FULL_MONTHS))
      [] p = 5 -> MonthFirstAt(text, i, Range(SHORT_MONTHS))
      [] p = 6 ->
            IF IsWordAt(text, i, RELATIVE_DATES) THEN <<text[i].chars>> ELSE <<>>
      [] p = 7 ->
            IF IsNumAt(text, i, 1, 2) /\ IsSepAt(text, i + 1, {" "})
               /\ IsWordAt(text, i + 2, Range(FULL_MONTHS)) /\ IsSepAt(text, i + 3, {" "})
               /\ IsNumAt(text, i + 4, 4, 4)
            THEN Groups(text, i, i + 2, i + 4) ELSE <<>>

\* re.findall(pattern, text)[0]: the leftmost match, <<>> when there is none
RECURSIVE FirstMatch(_, _, _)
FirstMatch(text, p, i) ==
    IF i > Len(text) THEN <<>>
    ELSE IF PatternAt(text, p, i) # <<>> THEN PatternAt(text, p, i)
    ELSE FirstMatch(text, p, i + 1)

\* int(s) raises ValueError unless s is made of digits
IsDigits(s) == s # <<>> /\ \A k \in 1..Len(s) : s[k] \in Digits

IsLeap(year) == (year % 4 = 0 /\ year % 100 # 0) \/ year % 400 = 0

DaysIn(year, month) ==
    IF month = 2 THEN (IF IsLeap(year) THEN 29 ELSE 28)
    ELSE IF month \in {4, 6, 9, 11} THEN 30 ELSE 31

\* datetime(year, month, day) accepts the date
ValidDate(year, month, day) ==
    /\ year \in 1..9999
    /\ month \in 1..12
    /\ day >= 1
    /\ day <= DaysIn(year, month)

DigitChar(v) ==
    CASE v = 0 -> "0" [] v = 1 -> "1" [] v = 2 -> "2" [] v = 3 -> "3" [] v = 4 -> "4"
      [] v = 5 -> "5" [] v = 6 -> "6" [] v = 7 -> "7" [] v = 8 -> "8" [] v = 9 -> "9"

\* the decimal digits of n, zero-padded to width
RECURSIVE Padded(_, _)
Padded(n, width) ==
    IF width = 0 THEN <<>>
    ELSE Append(Padded(n \div 10, width - 1), DigitChar(n % 10))

\* date_obj.strftime('%Y-%m-%d')
strftime(year, month, day) ==
    <<Num(Padded(year, 4)), Sep("-"), Num(Padded(month, 2)), Sep("-"), Num(Padded(day, 2))>>

\* the date of a relative word, counted in days from today
RelativeDate(w) ==
    <<Name(CASE LowerDateWord(w) = "today" -> "today+0"
             [] LowerDateWord(w) = "tomorrow" -> "today+1"
             [] LowerDateWord(w) = "yesterday" -> "today-1")>>

NoDate == <<Name("None")>>
Continue == <<Name("continue")>>

\* month, day = day, month when month > 12 and day <= 12
NumericDate(year, month, day) ==
    IF month > 12 /\ day <= 12
    THEN (IF ValidDate(year, day, month) THEN strftime(year, day, month) ELSE Continue)
    ELSE (IF ValidDate(year, month, day) THEN strftime(year, month, day) ELSE Continue)

\* month_map[month_name]
MonthNumber(name) ==
    IF \E k \in 1..12 : FULL_MONTHS[k] = name
    THEN CHOOSE k \in 1..12 : FULL_MONTHS[k] = name
    ELSE IF \E k \in 1..12 : SHORT_MONTHS[k] = name
    THEN CHOOSE k \in 1..12 : SHORT_MONTHS[k] = name
    ELSE 0

\* the body of the loop for the first match of one pattern: a returned date,
\* or Continue when the loop goes on with the next pattern. The numeric block
\* runs for every three-group match with a four-character last group, also a
\* month-name match; the month-name block only when the numeric block did not
\* (the only words a pattern puts in a group are the month names, so "an
\* abbreviation occurs in match[1]" is "match[1] is a month name")
HandleMatch(g) ==
    IF Len(g) = 1
    THEN RelativeDate(g[1][1])
    ELSE IF Len(g[3]) = 4
    THEN IF IsDigits(g[3]) /\ IsDigits(g[1]) /\ IsDigits(g[2])
         THEN NumericDate(IntOf(g[3]), IntOf(g[1]), IntOf(g[2]))
         ELSE Continue
    ELSE IF ~IsDigits(g[2]) /\ MonthNumber(LowerDateWord(g[2][1])) # 0
    THEN IF MonthNumber(LowerDateWord(g[2][1])) # 0 /\ IsDigits(g[3]) /\ IsDigits(g[1])
            /\ ValidDate(IntOf(g[3]), MonthNumber(LowerDateWord(g[2][1])), IntOf(g[1]))
         THEN strftime(IntOf(g[3]), MonthNumber(LowerDateWord(g[2][1])), IntOf(g[1]))
         ELSE Continue
    ELSE Continue

\* for pattern in date_patterns: ... return None
RECURSIVE TryPatterns(_, _)
TryPatterns(text, p) ==
    IF p > 7 THEN NoDate
    ELSE IF FirstMatch(text, p, 1) = <<>> THEN TryPatterns(text, p + 1)
    ELSE IF HandleMatch(FirstMatch(text, p, 1)) = Continue THEN TryPatterns(text, p + 1)
    ELSE HandleMatch(FirstMatch(text, p, 1))

extract_date_from_text(text) == TryPatterns(text, 1)

\* the dates of the model and the shapes they are written in
Years == {2023, 2024}

DateShapes == {"iso", "slash", "month", "mon", "day_month"}

\* the digits of n as a writer puts them, with or without a leading zero
WrittenNumber(n, padded) ==
    IF padded \/ n >= 10 THEN Padded(n, 2) ELSE <<DigitChar(n)>>

\* the date year-month-day written in a shape
WrittenDate(shape, year, month, day, padded) ==
    CASE shape = "iso" ->
            <<Num(Padded(year, 4)), Sep("-"), Num(WrittenNumber(month, padded)), Sep("-"),
              Num(WrittenNumber(day, padded))>>
      [] shape = "slash" ->
            <<Num(WrittenNumber(month, padded)), Sep("/"), Num(WrittenNumber(day, padded)),
              Sep("/"), Num(Padded(year, 4))>>
      [] shape = "month" ->
            <<Name(WrittenFull[month]), Sep(" "), Num(WrittenNumber(day, padded)),
              Sep(","), Sep(" "), Num(Padded(year, 4))>>
      [] shape = "mon" ->
            <<Name(WrittenShort[month]), Sep(" "), Num(WrittenNumber(day, padded)),
              Sep(","), Sep(" "), Num(Padded(year, 4))>>
      [] shape = "day_month" ->
            <<Num(WrittenNumber(day, padded)), Sep(" "), Name(WrittenFull[month]),
              Sep(" "), Num(Padded(year, 4))>>

\* the words in front of the date
DatePrefixes == {<<>>, <<Name("meeting"), Sep(" "), Name("on"), Sep(" ")>>}

InitDate ==
    /\ op = "init"
    /\ events = <<>>
    /\ result = <<>>
    /\ \E shape \in DateShapes, year \in Years, month \in 1..12, day \in 1..31,
          padded \in BOOLEAN, prefix \in DatePrefixes :
          /\ ValidDate(year, month, day)
          /\ input = [entry |-> "extract_date_from_text", shape |-> shape,
                      year |-> year, month |-> month, day |-> day,
                      text |-> prefix \o WrittenDate(shape, year, month, day, padded)]

ExtractDateFromText ==
    /\ op = "init"
    /\ input.entry = "extract_date_from_text"
    /\ op' = "extract_date_from_text"
    /\ result' = extract_date_from_text(input.text)
    /\ UNCHANGED <<input, events>>

NextDate == ExtractDateFromText

SpecDate == InitDate /\ [][NextDate]_vars

\* C23: for a text whose only date is a valid calendar date written in ISO,
\* slash or month-name shape, extract_date_from_text returns that date as
\* YYYY-MM-DD and never None.
C23_SupportedShapesExtracted ==
    op = "extract_date_from_text" =>
        result = strftime(input.year, input.month, input.day)

(***************************************************************************)
(* main.py (benign): the Drive instruction chain (claims C21 and C22)      *)
(***************************************************************************)
MaxDoc == 3

DocVocabulary ==
    {Word("please"), Word("send"), Word("notify"), Word("schedule"), Word("meeting"),
     Word("find"), Word("file"), Word("check"), Word("bob@example.org"), Word(".")}

\* the non-empty documents of the model
Documents == SeqsUpTo(DocVocabulary, MaxDoc) \ {<<>>}

\* a Google Doc without text and a file of another type: neither read succeeds
Unreadable == {DriveFile("f0", "gdoc", <<>>), DriveFile("f9", "pdf", <<>>)}

\* the listings drive.search answers with: unreadable files, then a document,
\* then possibly a second document
DriveListings ==
    {(pre \o <<DriveFile("f1", "gdoc", d)>>) \o post :
        pre \in SeqsUpTo(Unreadable, 2), d \in Documents,
        post \in {<<>>, <<DriveFile("f2", "gdoc", <<Word("please"), Word("schedule"), Word("meeting")>>)>>}}

\* the providers that may be out of order while the chain runs
DriveDowns == {{}, {<<"calendar", "create_event">>}, {<<"drive", "retrieve">>}}

\* "read drive": drive.search with should_process_file_content
DriveRequest == <<Word("read"), Word("drive")>>

InitDrive ==
    /\ op = "init"
    /\ events = <<>>
    /\ result = <<>>
    /\ \E files \in DriveListings, down \in DriveDowns :
          input = Request("process_message", "benign", DriveRequest, RouterMaxUrls, TRUE,
                          Env(down, {}, <<>>, files, <<>>, <<>>))

NextDrive == ProcessMessage

SpecDrive == InitDrive /\ [][NextDrive]_vars

\* the files the loop is given: files[:3]
ListedFiles == Take(input.env.files, 3)

\* the chain ran: drive.search answered
DriveChainRan ==
    /\ op = "process_message"
    /\ \E i \in 1..Len(events) :
          events[i].server = "drive" /\ events[i].tool = "search"
             /\ events[i].outcome = "ok"

\* the lines of the response that are about a file: every line but the tool's
\* own and those of the instructions
FileRecords ==
    SelectSeq(result.lines, LAMBDA l : l.label \notin {"drive", "instruction"})

\* the executor calls of the trace
Dispatches == SelectSeq(events, LAMBDA e : e.kind = "dispatch")

\* the instructions of every readable document of the listing
ListedInstructions ==
    Flatten([i \in 1..Len(ListedFiles) |->
                _extract_instructions_from_text(
                    read_file_content(ListedFiles[i], input.env.down).content)])

\* C21: in the Drive instruction chain every file of the listing, read or
\* not, has its record in the output, every instruction of every readable
\* file is executed, and every failed execution has a failure line: one
\* failure never halts the siblings.
C21_FailureRecordedSiblingsProcessed ==
    DriveChainRan =>
        /\ Len(FileRecords) = Len(ListedFiles)
        /\ Len(Dispatches) = Len(ListedInstructions)
        /\ Len(SelectSeq(Dispatches, LAMBDA e : e.outcome = "failed"))
              = Len(SelectSeq(result.lines,
                              LAMBDA l : l.label = "instruction" /\ ~l.ok))

\* the file whose read fails leaves no line in the output
C21_FailedReadUnrecorded ==
    /\ DriveChainRan
    /\ Len(ListedFiles) = 2
    /\ ListedFiles[1].id = "f9"
    /\ Len(FileRecords) = 1

\* the second document is never opened once the first was read
C21_SecondFileSkipped ==
    /\ DriveChainRan
    /\ Len(ListedFiles) = 2
    /\ ListedFiles[1].id = "f1" /\ ListedFiles[2].id = "f2"
    /\ Len(Dispatches) < Len(ListedInstructions)

\* a failed instruction is recorded and the next one still runs
C21_FailedInstructionRecorded ==
    /\ DriveChainRan
    /\ \E i \in 1..Len(events) :
          /\ events[i].kind = "dispatch" /\ events[i].outcome = "failed"
          /\ \E j \in (i + 1)..Len(events) : events[j].kind = "dispatch"
    /\ \E k \in 1..Len(result.lines) :
          result.lines[k].label = "instruction" /\ ~result.lines[k].ok

\* the addresses an instruction was cut from: its text ends where the
\* address has its first dot
CutAddresses(instr) ==
    {a \in EmailWords : \E i \in 1..Len(instr) : <<instr[i]>> = BeforeDot(Word(a))}

\* the gmail.send_message calls addressed to a
SendsTo(a) ==
    {j \in 1..Len(events) :
        /\ events[j].kind = "call_tool"
        /\ events[j].server = "gmail" /\ events[j].tool = "send_message"
        /\ events[j].arg = a}

\* C22: every instruction extracted from the Drive document that is processed
\* goes to exactly one executor, the one of its category, and every
\* communication instruction that carries an e-mail address causes exactly
\* one gmail.send_message call addressed to that address.
C22_CommunicationInstructionSendsMail ==
    DriveChainRan =>
        /\ \A i, j \in 1..Len(Dispatches) :
              Dispatches[i].arg = Dispatches[j].arg => i = j
        /\ \A i \in 1..Len(Dispatches) :
              /\ Dispatches[i].tool = Category(Dispatches[i].arg)
              /\ Dispatches[i].tool = "communication" =>
                    \A a \in CutAddresses(Dispatches[i].arg) : Cardinality(SendsTo(a)) = 1

\* each instruction reached the executor of its category, exactly once
C22_DispatchedOnce ==
    DriveChainRan =>
        /\ \A i, j \in 1..Len(Dispatches) :
              Dispatches[i].arg = Dispatches[j].arg => i = j
        /\ \A i \in 1..Len(Dispatches) :
              Dispatches[i].tool = Category(Dispatches[i].arg)

\* a communication instruction with an address was executed and no mail sent
C22_AddressedInstructionUnsent ==
    /\ DriveChainRan
    /\ \E i \in 1..Len(Dispatches) :
          /\ Dispatches[i].tool = "communication"
          /\ CutAddresses(Dispatches[i].arg) # {}
    /\ \A j \in 1..Len(events) : events[j].tool # "send_message"
====
